---- MODULE Spec2Model ----
(***************************************************************************)
(* Audiobook markup-to-timeline compiler of talk2me-ui.                    *)
(*                                                                         *)
(* markup_parser.py: the triple-brace markup parser, modelled character by *)
(* character (a text is a sequence of one-character strings).              *)
(* main.py: process_audiobook and its helpers, the scheduler that turns    *)
(* the parsed sections into timed audio events and mixes them.             *)
(*                                                                         *)
(* Times are integer milliseconds.  A Python None is the empty tuple and   *)
(* a present value x is the one-element tuple <<x>>.  A Python dict is a   *)
(* function from keys (texts) to option values.                            *)
(***************************************************************************)
EXTENDS Integers, Sequences, FiniteSets, TLC

(***************************************************************************)
(* Python values                                                           *)
(***************************************************************************)
None == <<>>

Some(x) == <<x>>

\* A str value of an option or of a dict entry.
Str(s) == [t |-> "str", s |-> s, m |-> 0, e |-> 0]

\* A finite float value m * 10^e, kept normalised (m not divisible by 10).
Num(m, e) == [t |-> "num", s |-> <<>>, m |-> m, e |-> e]

\* float("inf") / float("-inf") (m is the sign) and float("nan").
Inf(sign) == [t |-> "inf", s |-> <<>>, m |-> sign, e |-> 0]

NaN == [t |-> "nan", s |-> <<>>, m |-> 0, e |-> 0]

EmptyDict == [k \in {} |-> NaN]

\* dict.get(key, default)
Get(d, key, default) == IF key \in DOMAIN d THEN d[key] ELSE default

(***************************************************************************)
(* Characters and str methods                                              *)
(***************************************************************************)
UpperLetters == <<"A","B","C","D","E","F","G","H","I","J","K","L","M","N","O","P","Q","R","S","T","U","V","W","X","Y","Z">>

LowerLetters == <<"a","b","c","d","e","f","g","h","i","j","k","l","m","n","o","p","q","r","s","t","u","v","w","x","y","z">>

Digits == <<"0","1","2","3","4","5","6","7","8","9">>

Range(s) == {s[i] : i \in DOMAIN s}

\* Characters str.strip() removes.
Whitespace == {" ", "\t", "\n"}

\* Characters the regular expression class \w matches.
WordChars == Range(UpperLetters) \cup Range(LowerLetters) \cup Range(Digits) \cup {"_"}

\* First index i >= from with s[i] = c, or 0: str.find
RECURSIVE IndexFrom(_, _, _)
IndexFrom(s, c, from) ==
    IF from > Len(s) THEN 0
    ELSE IF s[from] = c THEN from
    ELSE IndexFrom(s, c, from + 1)

IndexOf(s, c) == IndexFrom(s, c, 1)

\* Position of c in the sequence s of distinct characters, or 0.
PosIn(s, c) == IF c \in Range(s) THEN CHOOSE i \in DOMAIN s : s[i] = c ELSE 0

\* str.lower(), one character
LowerChar(c) == IF PosIn(UpperLetters, c) > 0 THEN LowerLetters[PosIn(UpperLetters, c)] ELSE c

\* str.lower()
lower(s) == [i \in DOMAIN s |-> LowerChar(s[i])]

RECURSIVE lstrip(_)
lstrip(s) ==
    IF s # <<>> /\ Head(s) \in Whitespace THEN lstrip(Tail(s)) ELSE s

RECURSIVE rstrip(_)
rstrip(s) ==
    IF s # <<>> /\ s[Len(s)] \in Whitespace THEN rstrip(SubSeq(s, 1, Len(s) - 1)) ELSE s

\* str.strip()
strip(s) == rstrip(lstrip(s))

\* Last index of the run of characters of the set cs that starts at i (i - 1 when
\* s[i] is not in cs): the extent of a greedy character-class repetition.
RECURSIVE RunEnd(_, _, _)
RunEnd(s, cs, i) ==
    IF i <= Len(s) /\ s[i] \in cs THEN RunEnd(s, cs, i + 1) ELSE i - 1

\* Last index of the run of characters different from c that starts at i.
RECURSIVE RunEndNot(_, _, _)
RunEndNot(s, c, i) ==
    IF i <= Len(s) /\ s[i] # c THEN RunEndNot(s, c, i + 1) ELSE i - 1

(***************************************************************************)
(* float(str): Python's float literal grammar                              *)
(***************************************************************************)
\* digitpart ::= digit (["_"] digit)*
RECURSIVE IsDigitPart(_)
IsDigitPart(s) ==
    /\ s # <<>>
    /\ Head(s) \in Range(Digits)
    /\ \/ Len(s) = 1
       \/ Head(Tail(s)) = "_" /\ IsDigitPart(Tail(Tail(s)))
       \/ Head(Tail(s)) # "_" /\ IsDigitPart(Tail(s))

\* The number a digitpart (with leading value acc) denotes, underscores dropped.
RECURSIVE DigitsValue(_, _)
DigitsValue(s, acc) ==
    IF s = <<>> THEN acc
    ELSE IF Head(s) = "_" THEN DigitsValue(Tail(s), acc)
    ELSE DigitsValue(Tail(s), 10 * acc + (PosIn(Digits, Head(s)) - 1))

\* Number of digits of a digitpart.
DigitCount(s) == Cardinality({i \in DOMAIN s : s[i] # "_"})

RECURSIVE Normalise(_, _)
Normalise(m, e) ==
    IF m = 0 THEN Num(0, 0)
    ELSE IF m % 10 = 0 THEN Normalise(m \div 10, e + 1)
    ELSE Num(m, e)

\* An optional sign split off: <<sign, rest>>
SplitSign(s) ==
    IF s # <<>> /\ Head(s) = "-" THEN <<-1, Tail(s)>>
    ELSE IF s # <<>> /\ Head(s) = "+" THEN <<1, Tail(s)>>
    ELSE <<1, s>>

\* float(s): Some(value), or None where Python raises ValueError.
float(s) ==
    LET signed == SplitSign(strip(s))
        sign == signed[1]
        body == signed[2]
        word == lower(body)
        ePos == IndexOf(word, "e")
        mant == IF ePos > 0 THEN SubSeq(body, 1, ePos - 1) ELSE body
        expo == IF ePos > 0 THEN SplitSign(SubSeq(body, ePos + 1, Len(body))) ELSE <<1, <<"0">>>>
        dot == IndexOf(mant, ".")
        ip == IF dot > 0 THEN SubSeq(mant, 1, dot - 1) ELSE mant
        fp == IF dot > 0 THEN SubSeq(mant, dot + 1, Len(mant)) ELSE <<>>
        mantOk == /\ ip = <<>> \/ IsDigitPart(ip)
                  /\ fp = <<>> \/ IsDigitPart(fp)
                  /\ ip # <<>> \/ fp # <<>>
    IN  IF word \in {<<"i","n","f">>, <<"i","n","f","i","n","i","t","y">>} THEN Some(Inf(sign))
        ELSE IF word = <<"n","a","n">> THEN Some(NaN)
        ELSE IF mantOk /\ IsDigitPart(expo[2])
        THEN Some(Normalise(sign * DigitsValue(fp, DigitsValue(ip, 0)),
                            expo[1] * DigitsValue(expo[2], 0) - DigitCount(fp)))
        ELSE None

(***************************************************************************)
(* AudiobookMarkupParser                                                   *)
(***************************************************************************)
\* MarkupSection
MarkupSection(text, voice, sound_effects, background_audio) ==
    [text |-> text, voice |-> voice, sound_effects |-> sound_effects,
     background_audio |-> background_audio]

\* MARKUP_PATTERN with a body that may be empty: \{\{\{([^}]*)\}\}\}
MARKUP_PATTERN_match_emptyBody(text, i) ==
    IF i + 2 <= Len(text) /\ SubSeq(text, i, i + 2) = <<"{","{","{">>
    THEN LET j == IndexFrom(text, "}", i + 3)
         IN  IF j >= i + 3 /\ j + 2 <= Len(text) /\ SubSeq(text, j, j + 2) = <<"}","}","}">>
             THEN j ELSE 0
    ELSE 0

\* MARKUP_PATTERN = \{\{\{([^}]+)\}\}\} matched at position i of text: the index of
\* the first closing brace (the body is text[i+3 .. j-1]), or 0 when it does not
\* match there.  The body cannot hold a closing brace, so it ends at the first one.
MARKUP_PATTERN_match(text, i) ==
    IF i + 2 <= Len(text) /\ SubSeq(text, i, i + 2) = <<"{","{","{">>
    THEN LET j == IndexFrom(text, "}", i + 3)
         IN  IF j > i + 3 /\ j + 2 <= Len(text) /\ SubSeq(text, j, j + 2) = <<"}","}","}">>
             THEN j ELSE 0
    ELSE 0

\* MARKUP_PATTERN.split(text) from the pending text start p, scanning at i: the
\* alternating list text, body, text, ..., text.
RECURSIVE SplitFrom(_, _, _)
SplitFrom(text, p, i) ==
    IF i > Len(text) THEN <<SubSeq(text, p, Len(text))>>
    ELSE LET j == MARKUP_PATTERN_match(text, i)
         IN  IF j > 0
             THEN <<SubSeq(text, p, i - 1), SubSeq(text, i + 3, j - 1)>>
                      \o SplitFrom(text, j + 3, j + 3)
             ELSE SplitFrom(text, p, i + 1)

MARKUP_PATTERN_split(text) == SplitFrom(text, 1, 1)

\* OPTION_PATTERN = (\w+):([^,]+), finditer over s from position i: the list of
\* <<key, val>> groups.
RECURSIVE OPTION_PATTERN_finditer(_, _)
OPTION_PATTERN_finditer(s, i) ==
    IF i > Len(s) THEN <<>>
    ELSE LET k == RunEnd(s, WordChars, i)
             v == RunEndNot(s, ",", k + 2)
         IN  IF k >= i /\ k + 1 <= Len(s) /\ s[k + 1] = ":" /\ v >= k + 2
             THEN <<  <<SubSeq(s, i, k), SubSeq(s, k + 2, v)>>  >>
                      \o OPTION_PATTERN_finditer(s, v + 1)
             ELSE OPTION_PATTERN_finditer(s, i + 1)

\* The value an option gets: converted when float(val) returned, val when it
\* raised ValueError.
Converted(converted, val) == IF converted # None THEN converted[1] ELSE Str(val)

\* options[key] = value
Stored(options, key, value) ==
    [k \in DOMAIN options \cup {key} |-> IF k = key THEN value ELSE options[k]]

\* The option loop of _parse_markup: each value converted with float when it
\* parses, kept as the matched str otherwise; a later key replaces an earlier one.
RECURSIVE OptionsOf(_, _)
OptionsOf(matches, options) ==
    IF matches = <<>> THEN options
    ELSE LET key == Head(matches)[1]
             val == Head(matches)[2]
         IN  OptionsOf(Tail(matches),
                       Stored(options, strip(key), Converted(float(val), val)))

\* {"name": value, **options}
BackgroundDict(value, options) ==
    [k \in DOMAIN options \cup {<<"n","a","m","e">>} |->
        IF k \in DOMAIN options THEN options[k] ELSE Str(value)]

\* AudiobookMarkupParser.__init__
ParserInit == [current_voice |-> None, current_background |-> None]

\* AudiobookMarkupError
AudiobookMarkupError(kind, arg) == [exc |-> "AudiobookMarkupError", kind |-> kind, arg |-> arg]

NoError == [exc |-> "none", kind |-> "", arg |-> <<>>]

\* The command and the value _parse_markup reads from a body that has a colon.
CommandOf(markup) == lower(strip(SubSeq(markup, 1, IndexOf(markup, ":") - 1)))

ValuePartOf(markup) == strip(SubSeq(markup, IndexOf(markup, ":") + 1, Len(markup)))

ValueOf(markup) ==
    LET value_part == ValuePartOf(markup)
        comma == IndexOf(value_part, ",")
    IN  IF comma > 0 THEN strip(SubSeq(value_part, 1, comma - 1)) ELSE value_part

OptionsDictOf(markup) ==
    LET value_part == ValuePartOf(markup)
        comma == IndexOf(value_part, ",")
    IN  IF comma > 0
        THEN OptionsOf(OPTION_PATTERN_finditer(SubSeq(value_part, comma + 1, Len(value_part)), 1),
                       EmptyDict)
        ELSE EmptyDict

\* _parse_markup without the lower-casing of the command.
_parse_markup_nolower(self, markup) ==
    IF IndexOf(markup, ":") = 0
    THEN [raised |-> AudiobookMarkupError("format", markup), self |-> self]
    ELSE LET command == strip(SubSeq(markup, 1, IndexOf(markup, ":") - 1))
             value == ValueOf(markup)
             options == OptionsDictOf(markup)
         IN  IF command = <<"v","o","i","c","e">>
             THEN [raised |-> NoError, self |-> [self EXCEPT !.current_voice = Some(value)]]
             ELSE IF command = <<"s","f","x">>
             THEN [raised |-> NoError, self |-> self]
             ELSE IF command = <<"b","g">>
             THEN IF lower(value) = <<"s","t","o","p">>
                  THEN [raised |-> NoError, self |-> [self EXCEPT !.current_background = None]]
                  ELSE [raised |-> NoError,
                        self |-> [self EXCEPT !.current_background =
                                                  Some(BackgroundDict(value, options))]]
             ELSE [raised |-> AudiobookMarkupError("command", command), self |-> self]

\* _parse_markup without the special case of bg:stop.
_parse_markup_nostop(self, markup) ==
    IF IndexOf(markup, ":") = 0
    THEN [raised |-> AudiobookMarkupError("format", markup), self |-> self]
    ELSE LET command == CommandOf(markup)
             value == ValueOf(markup)
             options == OptionsDictOf(markup)
         IN  IF command = <<"v","o","i","c","e">>
             THEN [raised |-> NoError, self |-> [self EXCEPT !.current_voice = Some(value)]]
             ELSE IF command = <<"s","f","x">>
             THEN [raised |-> NoError, self |-> self]
             ELSE IF command = <<"b","g">>
             THEN [raised |-> NoError,
                   self |-> [self EXCEPT !.current_background =
                                             Some(BackgroundDict(value, options))]]
             ELSE [raised |-> AudiobookMarkupError("command", command), self |-> self]

\* AudiobookMarkupParser._parse_markup on the parser state self: the exception
\* raised (NoError when it returns) and the parser state afterwards.
_parse_markup(self, markup) ==
    IF IndexOf(markup, ":") = 0
    THEN [raised |-> AudiobookMarkupError("format", markup), self |-> self]
    ELSE LET command == CommandOf(markup)
             value == ValueOf(markup)
         IN  IF command = <<"v","o","i","c","e">>
             THEN [raised |-> NoError, self |-> [self EXCEPT !.current_voice = Some(value)]]
             ELSE IF command = <<"s","f","x">>
             THEN [raised |-> NoError, self |-> self]
             ELSE IF command = <<"b","g">>
             THEN IF lower(value) = <<"s","t","o","p">>
                  THEN [raised |-> NoError, self |-> [self EXCEPT !.current_background = None]]
                  ELSE [raised |-> NoError,
                        self |-> [self EXCEPT !.current_background =
                                                  Some(BackgroundDict(value, OptionsDictOf(markup)))]]
             ELSE [raised |-> AudiobookMarkupError("command", command), self |-> self]

\* The loop of parse closing the pending section after the directive is
\* interpreted instead of before.
RECURSIVE ParseLoop_lateClose(_, _, _, _, _, _)
ParseLoop_lateClose(parts, i, self, sections, current_text, current_sfx) ==
    IF i > Len(parts)
    THEN [raised |-> NoError,
          sections |-> IF strip(current_text) # <<>>
                       THEN Append(sections,
                                   MarkupSection(strip(current_text), self.current_voice,
                                                 current_sfx, self.current_background))
                       ELSE sections,
          self |-> self]
    ELSE IF i % 2 = 1
    THEN ParseLoop_lateClose(parts, i + 1, self, sections, current_text \o parts[i], current_sfx)
    ELSE LET closes == strip(current_text) # <<>>
             r == _parse_markup(self, parts[i])
         IN  IF r.raised # NoError
             THEN [raised |-> r.raised, sections |-> <<>>, self |-> r.self]
             ELSE ParseLoop_lateClose(parts, i + 1, r.self,
                      IF closes
                      THEN Append(sections,
                                  MarkupSection(strip(current_text), r.self.current_voice,
                                                current_sfx, r.self.current_background))
                      ELSE sections,
                      IF closes THEN <<>> ELSE current_text,
                      IF closes THEN <<>> ELSE current_sfx)

\* The loop of parse skipping a directive _parse_markup rejects instead of
\* letting its exception end the scan.
RECURSIVE ParseLoop_skipInvalid(_, _, _, _, _, _)
ParseLoop_skipInvalid(parts, i, self, sections, current_text, current_sfx) ==
    IF i > Len(parts)
    THEN [raised |-> NoError,
          sections |-> IF strip(current_text) # <<>>
                       THEN Append(sections,
                                   MarkupSection(strip(current_text), self.current_voice,
                                                 current_sfx, self.current_background))
                       ELSE sections,
          self |-> self]
    ELSE IF i % 2 = 1
    THEN ParseLoop_skipInvalid(parts, i + 1, self, sections, current_text \o parts[i], current_sfx)
    ELSE LET closes == strip(current_text) # <<>>
             sections1 == IF closes
                          THEN Append(sections,
                                      MarkupSection(strip(current_text), self.current_voice,
                                                    current_sfx, self.current_background))
                          ELSE sections
             r == _parse_markup(self, parts[i])
         IN  ParseLoop_skipInvalid(parts, i + 1, r.self, sections1,
                                   IF closes THEN <<>> ELSE current_text,
                                   IF closes THEN <<>> ELSE current_sfx)

\* The loop of parse storing the text of a section as it was read, untrimmed.
RECURSIVE ParseLoop_untrimmed(_, _, _, _, _, _)
ParseLoop_untrimmed(parts, i, self, sections, current_text, current_sfx) ==
    IF i > Len(parts)
    THEN [raised |-> NoError,
          sections |-> IF strip(current_text) # <<>>
                       THEN Append(sections,
                                   MarkupSection(current_text, self.current_voice,
                                                 current_sfx, self.current_background))
                       ELSE sections,
          self |-> self]
    ELSE IF i % 2 = 1
    THEN ParseLoop_untrimmed(parts, i + 1, self, sections, current_text \o parts[i], current_sfx)
    ELSE LET closes == strip(current_text) # <<>>
             sections1 == IF closes
                          THEN Append(sections,
                                      MarkupSection(current_text, self.current_voice,
                                                    current_sfx, self.current_background))
                          ELSE sections
             r == _parse_markup(self, parts[i])
         IN  IF r.raised # NoError
             THEN [raised |-> r.raised, sections |-> <<>>, self |-> r.self]
             ELSE ParseLoop_untrimmed(parts, i + 1, r.self, sections1,
                                      IF closes THEN <<>> ELSE current_text,
                                      IF closes THEN <<>> ELSE current_sfx)

\* The loop of parse over parts[i..], then the final section.
RECURSIVE ParseLoop(_, _, _, _, _, _)
ParseLoop(parts, i, self, sections, current_text, current_sfx) ==
    IF i > Len(parts)
    THEN [raised |-> NoError,
          sections |-> IF strip(current_text) # <<>>
                       THEN Append(sections,
                                   MarkupSection(strip(current_text), self.current_voice,
                                                 current_sfx, self.current_background))
                       ELSE sections,
          self |-> self]
    ELSE IF i % 2 = 1
    THEN ParseLoop(parts, i + 1, self, sections, current_text \o parts[i], current_sfx)
    ELSE LET closes == strip(current_text) # <<>>
             sections1 == IF closes
                          THEN Append(sections,
                                      MarkupSection(strip(current_text), self.current_voice,
                                                    current_sfx, self.current_background))
                          ELSE sections
             r == _parse_markup(self, parts[i])
         IN  IF r.raised # NoError
             THEN [raised |-> r.raised, sections |-> <<>>, self |-> r.self]
             ELSE ParseLoop(parts, i + 1, r.self, sections1,
                            IF closes THEN <<>> ELSE current_text,
                            IF closes THEN <<>> ELSE current_sfx)

\* AudiobookMarkupParser.parse on the parser state self.
parse(self, text) ==
    IF strip(text) = <<>>
    THEN [raised |-> NoError, sections |-> <<>>, self |-> self]
    ELSE ParseLoop(MARKUP_PATTERN_split(text), 1, self, <<>>, <<>>, <<>>)

\* The AudiobookMarkupParser instance a client keeps and calls parse and
\* validate_markup on, and the calls made so far with what they returned.
VARIABLES parser, log

\* parse_audiobook_markup calling parse on the client's parser instead of a new
\* one.
parse_audiobook_markup_shared(text) == parse(parser, text)

\* parse_audiobook_markup: a fresh parser for each call.
parse_audiobook_markup(text) == parse(ParserInit, text)

\* text.count(sub) from position i: the occurrences of sub counted from left to
\* right, the search resuming after each one.
RECURSIVE count(_, _, _)
count(text, sub, i) ==
    IF i + Len(sub) - 1 > Len(text) THEN 0
    ELSE IF SubSeq(text, i, i + Len(sub) - 1) = sub THEN 1 + count(text, sub, i + Len(sub))
    ELSE count(text, sub, i + 1)

\* MARKUP_PATTERN.finditer(text) from position i: the list of <<match.start(),
\* match.group(1)>>, positions counted from 0.
RECURSIVE MARKUP_PATTERN_finditer(_, _)
MARKUP_PATTERN_finditer(text, i) ==
    IF i > Len(text) THEN <<>>
    ELSE LET j == MARKUP_PATTERN_match(text, i)
         IN  IF j > 0
             THEN <<  <<i - 1, SubSeq(text, i + 3, j - 1)>>  >> \o MARKUP_PATTERN_finditer(text, j + 3)
             ELSE MARKUP_PATTERN_finditer(text, i + 1)

\* The entries of issues: "Unmatched braces: <open> opening, <close> closing" and
\* "Invalid markup at position <position>: <error>".
UnmatchedBraces(open, close) ==
    [issue |-> "Unmatched braces", opening |-> open, closing |-> close, position |-> 0,
     error |-> NoError]

InvalidMarkup(position, error) ==
    [issue |-> "Invalid markup", opening |-> 0, closing |-> 0, position |-> position,
     error |-> error]

\* The loop of validate_markup reporting the first invalid directive only.
RECURSIVE ValidateLoop_firstOnly(_, _, _)
ValidateLoop_firstOnly(matches, self, issues) ==
    IF matches = <<>> THEN [raised |-> NoError, issues |-> issues, self |-> self]
    ELSE LET r == _parse_markup(ParserInit, Head(matches)[2])
         IN  IF r.raised = NoError THEN ValidateLoop_firstOnly(Tail(matches), self, issues)
             ELSE IF r.raised.exc = "AudiobookMarkupError"
             THEN [raised |-> NoError,
                   issues |-> Append(issues, InvalidMarkup(Head(matches)[1], r.raised)),
                   self |-> self]
             ELSE [raised |-> r.raised, issues |-> issues, self |-> self]

\* The loop of validate_markup interpreting each directive with the parser it is
\* called on instead of a temporary one.
RECURSIVE ValidateLoop_onSelf(_, _, _)
ValidateLoop_onSelf(matches, self, issues) ==
    IF matches = <<>> THEN [raised |-> NoError, issues |-> issues, self |-> self]
    ELSE LET r == _parse_markup(self, Head(matches)[2])
         IN  IF r.raised = NoError THEN ValidateLoop_onSelf(Tail(matches), r.self, issues)
             ELSE IF r.raised.exc = "AudiobookMarkupError"
             THEN ValidateLoop_onSelf(Tail(matches), r.self,
                                      Append(issues, InvalidMarkup(Head(matches)[1], r.raised)))
             ELSE [raised |-> r.raised, issues |-> issues, self |-> r.self]

\* The loop of validate_markup over the matches: each body is interpreted by a
\* new parser (temp_parser), an AudiobookMarkupError becomes an issue and any
\* other exception leaves validate_markup.
RECURSIVE ValidateLoop(_, _, _)
ValidateLoop(matches, self, issues) ==
    IF matches = <<>> THEN [raised |-> NoError, issues |-> issues, self |-> self]
    ELSE LET r == _parse_markup(ParserInit, Head(matches)[2])
         IN  IF r.raised = NoError THEN ValidateLoop(Tail(matches), self, issues)
             ELSE IF r.raised.exc = "AudiobookMarkupError"
             THEN ValidateLoop(Tail(matches), self,
                               Append(issues, InvalidMarkup(Head(matches)[1], r.raised)))
             ELSE [raised |-> r.raised, issues |-> issues, self |-> self]

\* validate_markup checking the braces only.
validate_markup_bracesOnly(self, text) ==
    LET open_count == count(text, <<"{","{","{">>, 1)
        close_count == count(text, <<"}","}","}">>, 1)
    IN  [raised |-> NoError,
         issues |-> IF open_count # close_count
                    THEN <<UnmatchedBraces(open_count, close_count)>> ELSE <<>>,
         self |-> self]

\* AudiobookMarkupParser.validate_markup on the parser state self: the exception
\* that leaves it, the issues it returns and the parser state it leaves.
validate_markup(self, text) ==
    LET open_count == count(text, <<"{","{","{">>, 1)
        close_count == count(text, <<"}","}","}">>, 1)
    IN  ValidateLoop(MARKUP_PATTERN_finditer(text, 1), self,
                     IF open_count # close_count
                     THEN <<UnmatchedBraces(open_count, close_count)>> ELSE <<>>)

\* validate_audiobook_markup: a fresh parser for each call.
validate_audiobook_markup(text) == validate_markup(ParserInit, text)

(***************************************************************************)
(* Option values as process_audiobook reads them                           *)
(***************************************************************************)
RECURSIVE Pow10(_)
Pow10(n) == IF n <= 0 THEN 1 ELSE 10 * Pow10(n - 1)

\* x * 1000 for a finite float x, in whole milliseconds (a fraction of a
\* millisecond is dropped, as int() and the overlay position do).
Times1000(x) ==
    IF x.e + 3 >= 0 THEN x.m * Pow10(x.e + 3)
    ELSE IF x.m >= 0 THEN x.m \div Pow10(-(x.e + 3))
    ELSE -((-x.m) \div Pow10(-(x.e + 3)))

\* Python truthiness of an option value.
Truthy(x) == IF x.t = "str" THEN x.s # <<>> ELSE IF x.t = "num" THEN x.m # 0 ELSE TRUE

ValueError(kind) == [exc |-> "ValueError", kind |-> kind, arg |-> <<>>]

TypeError(kind) == [exc |-> "TypeError", kind |-> kind, arg |-> <<>>]

OverflowError(kind) == [exc |-> "OverflowError", kind |-> kind, arg |-> <<>>]

\* An exception of api_client.tts_synthesize or AudioSegment.from_wav.
SynthesisError == [exc |-> "Exception", kind |-> "synthesize", arg |-> <<>>]

\* 20 * math.log10(volume) and the gain it is applied as: the exception raised,
\* NoError when the gain is applied.  log10 raises ValueError for a volume <= 0 and
\* TypeError for a str; a NaN or infinite gain is taken to fail when it is applied.
VolumeError(volume) ==
    IF volume.t = "str" THEN TypeError("volume")
    ELSE IF volume.t = "num" /\ volume.m <= 0 THEN ValueError("math domain error")
    ELSE IF volume.t = "inf" /\ volume.m < 0 THEN ValueError("math domain error")
    ELSE IF volume.t \in {"inf", "nan"} THEN OverflowError("volume")
    ELSE NoError

\* `if fade > 0: segment.fade(int(fade * 1000))`: the exception raised.
FadeError(fade) ==
    IF fade.t = "str" THEN TypeError("fade")
    ELSE IF fade.t = "inf" /\ fade.m > 0 THEN OverflowError("fade")
    ELSE NoError

FirstError(errs) ==
    IF \E i \in DOMAIN errs : errs[i] # NoError
    THEN errs[CHOOSE i \in DOMAIN errs : errs[i] # NoError /\ \A j \in 1..(i - 1) : errs[j] = NoError]
    ELSE NoError

Min(a, b) == IF a <= b THEN a ELSE b

Max(a, b) == IF a >= b THEN a ELSE b

(***************************************************************************)
(* The sound library: what a lookup can return                             *)
(***************************************************************************)
\* A Sound row whose file exists: the columns load_* reads (database.py: Float
\* columns with no range check) and the length in ms of the file's audio.
Sound(length, volume) ==
    [found |-> "ok", length |-> length, volume |-> volume, fade_in |-> Num(0, 0),
     fade_out |-> Num(0, 0), duration |-> None]

\* The rows a lookup finds: a file with no audio, a short and a long file at the
\* default volume 0.8, and a row stored with volume 0.
Sounds == {Sound(0, Num(8, -1)), Sound(400, Num(8, -1)), Sound(1500, Num(8, -1)), Sound(400, Num(0, 0))}

NoRecord ==
    [found |-> "norecord", length |-> 0, volume |-> Num(0, 0), fade_in |-> Num(0, 0),
     fade_out |-> Num(0, 0), duration |-> None]

NoFile == [NoRecord EXCEPT !.found = "nofile"]

\* Every result of db_sound_manager.list_sounds plus the file check, for a
\* background.
Lookups == {NoRecord, NoFile} \cup Sounds

\* Every result of db_sound_manager.get_sound plus the file check, for a sound
\* effect: the length of an effect is compared to nothing, so one file with audio
\* stands for all of them.
SfxLookups == Lookups \ {Sound(1500, Num(8, -1))}

\* load_sound_effect raising for a sound that is not in the library or has no
\* file, instead of returning None.
load_sound_effect_raiseMissing(sfx_config, sound) ==
    IF sound.found # "ok"
    THEN [raised |-> [exc |-> "FileNotFoundError", kind |-> sound.found, arg |-> <<>>],
          segment |-> None]
    ELSE [raised |-> NoError, segment |-> Some(sound.length)]

\* load_sound_effect with the lookup result sound: the exception raised and the
\* returned segment (None, or Some(length in ms)).
load_sound_effect(sfx_config, sound) ==
    IF sound.found # "ok" THEN [raised |-> NoError, segment |-> None]
    ELSE LET volume == Get(sfx_config, <<"v","o","l","u","m","e">>, sound.volume)
             fade_in == Get(sfx_config, <<"f","a","d","e","_","i","n">>, sound.fade_in)
             fade_out == Get(sfx_config, <<"f","a","d","e","_","o","u","t">>, sound.fade_out)
             given == Get(sfx_config, <<"d","u","r","a","t","i","o","n">>, NaN)
             duration == IF <<"d","u","r","a","t","i","o","n">> \in DOMAIN sfx_config /\ Truthy(given)
                         THEN Some(given) ELSE sound.duration
             durErr == IF duration # None /\ duration[1].t = "str" THEN ValueError("duration")
                       ELSE IF duration # None /\ duration[1].t # "num" THEN OverflowError("duration")
                       ELSE NoError
             err == FirstError(<<VolumeError(volume), FadeError(fade_in), FadeError(fade_out), durErr>>)
         IN  IF err # NoError THEN [raised |-> err, segment |-> None]
             ELSE [raised |-> NoError,
                   segment |-> Some(IF duration # None /\ Truthy(duration[1])
                                    THEN Min(sound.length, Max(0, Times1000(duration[1])))
                                    ELSE sound.length)]

\* load_background_audio with the lookup result sound.
load_background_audio(bg_config, sound) ==
    IF sound.found # "ok" THEN [raised |-> NoError, segment |-> None]
    ELSE LET volume == Get(bg_config, <<"v","o","l","u","m","e">>, sound.volume)
             fade_in == Get(bg_config, <<"f","a","d","e","_","i","n">>, sound.fade_in)
             fade_out == Get(bg_config, <<"f","a","d","e","_","o","u","t">>, sound.fade_out)
             err == FirstError(<<VolumeError(volume), FadeError(fade_in), FadeError(fade_out)>>)
         IN  IF err # NoError THEN [raised |-> err, segment |-> None]
             ELSE [raised |-> NoError, segment |-> Some(sound.length)]

\* `if segment:` for an Optional[AudioSegment]: None and a segment of length 0
\* (AudioSegment defines __len__) are both false.
SegmentTruthy(segment) == segment # None /\ segment[1] > 0

(***************************************************************************)
(* Python floats, for the seconds create_looped_segment computes with      *)
(***************************************************************************)
\* The significand of a float has 53 binary digits.
Precision == 53

\* Long numbers are handled Chunk binary digits at a time.
Chunk == 10

\* Chunks of a quotient computed after the point before it is rounded.
FractionChunks == 7

\* A float x >= 0: bits are the 53 digits of its significand, the first one 1,
\* and x = (the number bits spell) * 2^e.  0.0 has no bits.
FloatZero == [bits |-> <<>>, e |-> 0]

Zeros(n) == [i \in 1..n |-> 0]

\* The number the digits bits[i..] spell after the digits that spell acc.
RECURSIVE NatFrom(_, _, _)
NatFrom(bits, i, acc) ==
    IF i > Len(bits) THEN acc ELSE NatFrom(bits, i + 1, 2 * acc + bits[i])

\* The digits in chunks, most significant first.
ChunksOf(bits) ==
    LET padded == Zeros((Chunk - (Len(bits) % Chunk)) % Chunk) \o bits
    IN  [j \in 1..(Len(padded) \div Chunk) |->
            NatFrom(SubSeq(padded, (j - 1) * Chunk + 1, j * Chunk), 1, 0)]

\* The digits of the chunks.
BitsOfChunks(chunks) ==
    [i \in 1..(Len(chunks) * Chunk) |->
        (chunks[(i - 1) \div Chunk + 1] \div 2^(Chunk - 1 - ((i - 1) % Chunk))) % 2]

\* The chunks of a whole number below 2^40.
ChunksOfNat(n) == [j \in 1..4 |-> (n \div (2^Chunk)^(4 - j)) % 2^Chunk]

\* The whole number the chunks[i..] spell after the chunks that spell acc.
RECURSIVE NatOfChunks(_, _, _)
NatOfChunks(chunks, i, acc) ==
    IF i > Len(chunks) THEN acc ELSE NatOfChunks(chunks, i + 1, acc * 2^Chunk + chunks[i])

NatOf(bits) == NatOfChunks(ChunksOf(bits), 1, 0)

StripZeros(bits) ==
    IF \A i \in DOMAIN bits : bits[i] = 0 THEN <<>>
    ELSE SubSeq(bits, CHOOSE i \in DOMAIN bits : bits[i] = 1 /\ \A j \in 1..(i - 1) : bits[j] = 0,
                Len(bits))

\* bits + 1
Increment(bits) ==
    IF \A i \in DOMAIN bits : bits[i] = 1 THEN <<1>> \o [i \in DOMAIN bits |-> 0]
    ELSE LET last == CHOOSE i \in DOMAIN bits : bits[i] = 0 /\ \A j \in (i + 1)..Len(bits) : bits[j] = 1
         IN  [i \in DOMAIN bits |-> IF i < last THEN bits[i] ELSE IF i = last THEN 1 ELSE 0]

\* The float nearest to (bits * 2^e, plus something below the last digit when
\* sticky), ties to the even significand: the rounding of every float operation.
RoundToFloat(bits, e, sticky) ==
    IF bits = <<>> THEN FloatZero
    ELSE IF Len(bits) <= Precision
    THEN [bits |-> bits \o Zeros(Precision - Len(bits)), e |-> e - (Precision - Len(bits))]
    ELSE LET kept == SubSeq(bits, 1, Precision)
             dropped == SubSeq(bits, Precision + 1, Len(bits))
             more == sticky \/ \E i \in 2..Len(dropped) : dropped[i] = 1
             up == dropped[1] = 1 /\ (more \/ kept[Precision] = 1)
             r == IF up THEN Increment(kept) ELSE kept
         IN  IF Len(r) > Precision
             THEN [bits |-> SubSeq(r, 1, Precision), e |-> e + Len(dropped) + 1]
             ELSE [bits |-> r, e |-> e + Len(dropped)]

\* The next k chunks of r / d after the point (r < d) appended to chunks, and
\* what is left of r.
RECURSIVE FractionOf(_, _, _, _)
FractionOf(r, d, k, chunks) ==
    IF k = 0 THEN [chunks |-> chunks, rem |-> r]
    ELSE FractionOf((r * 2^Chunk) % d, d, k - 1, Append(chunks, (r * 2^Chunk) \div d))

\* n / d for whole numbers n >= 0 and d > 0, as the float division gives it.
fdiv(n, d) ==
    LET f == FractionOf(n % d, d, FractionChunks, ChunksOfNat(n \div d))
    IN  RoundToFloat(StripZeros(BitsOfChunks(f.chunks)), -(Chunk * FractionChunks), f.rem # 0)

\* a < b for digit sequences of one length, from position i on.
BitsLess(a, b, i) == \E j \in i..Len(a) : a[j] < b[j] /\ \A k \in i..(j - 1) : a[k] = b[k]

\* a - b for digit sequences of one length, a >= b: a digit borrows from the
\* one before it when what follows it in a is less than what follows it in b.
SubBits(a, b) ==
    [i \in DOMAIN a |-> (a[i] - b[i] - (IF BitsLess(a, b, i + 1) THEN 1 ELSE 0) + 2) % 2]

\* x - y for floats x >= y.
fsub(x, y) ==
    IF y.bits = <<>> THEN x
    ELSE LET e == Min(x.e, y.e)
             a == x.bits \o Zeros(x.e - e)
             b == y.bits \o Zeros(y.e - e)
             n == Max(Len(a), Len(b))
         IN  RoundToFloat(StripZeros(SubBits(Zeros(n - Len(a)) \o a, Zeros(n - Len(b)) \o b)),
                          e, FALSE)

\* chunks * k: the chunks from position i down, carry brought to position i,
\* before the chunks acc.
RECURSIVE MulChunks(_, _, _, _, _)
MulChunks(chunks, k, i, carry, acc) ==
    IF i = 0 THEN ChunksOfNat(carry) \o acc
    ELSE MulChunks(chunks, k, i - 1, (chunks[i] * k + carry) \div 2^Chunk,
                   <<(chunks[i] * k + carry) % 2^Chunk>> \o acc)

\* x * k for a float x and a whole number k.
fmul(x, k) ==
    LET chunks == ChunksOf(x.bits)
    IN  RoundToFloat(StripZeros(BitsOfChunks(MulChunks(chunks, k, Len(chunks), 0, <<>>))),
                     x.e, FALSE)

\* x < y
flt(x, y) ==
    IF y.bits = <<>> THEN FALSE
    ELSE IF x.bits = <<>> THEN TRUE
    ELSE x.e < y.e \/ (x.e = y.e /\ BitsLess(x.bits, y.bits, 1))

\* int(x): the whole part of a float below 2^31.
int(x) ==
    IF x.bits = <<>> \/ -x.e >= Len(x.bits) THEN 0
    ELSE IF x.e >= 0 THEN NatOf(x.bits \o Zeros(x.e))
    ELSE NatOf(SubSeq(x.bits, 1, Len(x.bits) + x.e))

\* AudioSegment.duration_seconds of a segment of ms whole milliseconds: the
\* frame count divided by the frame rate, which is ms / 1000.
duration_seconds(ms) == fdiv(ms, 1000)

\* create_looped_segment never returns: its while loop no longer changes
\* looped_segment.
Forever == -1

\* The while loop of create_looped_segment from the length looped so far:
\* the length of looped_segment when the loop ends, Forever when it does not.
RECURSIVE LoopFill(_, _, _)
LoopFill(looped, seglen, duration_ms) ==
    IF flt(duration_seconds(looped), fdiv(duration_ms, 1000))
    THEN LET remaining == fsub(fdiv(duration_ms, 1000), duration_seconds(looped))
             added == IF ~flt(remaining, duration_seconds(seglen)) THEN seglen
                      ELSE Min(seglen, int(fmul(remaining, 1000)))
         IN  IF added = 0 THEN Forever
             ELSE LoopFill(looped + added, seglen, duration_ms)
    ELSE looped

\* Longest section list the patched parse_audiobook_markup returns.
MaxSections == 2

\* Lengths in ms of the audio tts_synthesize returns.
SynthLens == {1000, 2000}

\* The values current_time takes: the voice lengths of at most n sections.
RECURSIVE Times(_)
Times(n) ==
    IF n = 0 THEN {0}
    ELSE LET ts == Times(n - 1) IN ts \cup {t + out : t \in ts, out \in SynthLens}

\* The while loop of create_looped_segment on every segment length and span
\* of this model, computed once.
LoopedLengths ==
    LET args == {s.length : s \in Sounds} \X Times(MaxSections)
    IN  {<<a, LoopFill(0, a[1], a[2])>> : a \in args}

\* The entry of table for args when it has one, computed otherwise.
Looked(table, args, computed) ==
    IF \E l \in table : l[1] = args THEN (CHOOSE l \in table : l[1] = args)[2] ELSE computed

\* create_looped_segment: the length of the segment it returns, Forever when it
\* does not return.
create_looped_segment(seglen, duration_ms, loop) ==
    IF loop
    THEN Looked(LoopedLengths, <<seglen, duration_ms>>, LoopFill(0, seglen, duration_ms))
    ELSE Min(seglen, Max(0, duration_ms))

\* An entry of audio_events: (start_time, segment).  kind, ref and section say
\* which request produced it; the code keeps only start and the segment.
Event(start, len, kind, ref, section) ==
    [start |-> start, len |-> len, kind |-> kind, ref |-> ref, section |-> section]

\* bg_config.get("loop", True), as the truth value create_looped_segment tests.
LoopOf(bg_config) == IF <<"l","o","o","p">> \in DOMAIN bg_config THEN Truthy(bg_config[<<"l","o","o","p">>]) ELSE TRUE

\* The append placing every background buffer at the start of the timeline.
AppendLooped_fromZero(events, start_time, looped, ref, section) ==
    IF looped = Forever
    THEN [raised |-> NoError, returns |-> FALSE, events |-> events]
    ELSE [raised |-> NoError, returns |-> TRUE,
          events |-> Append(events, Event(0, looped, "bg", ref, section))]

\* audio_events.append((start_time, looped_bg)) once create_looped_segment has
\* returned looped_bg; nothing is appended when it does not return.
AppendLooped(events, start_time, looped, ref, section) ==
    IF looped = Forever
    THEN [raised |-> NoError, returns |-> FALSE, events |-> events]
    ELSE [raised |-> NoError, returns |-> TRUE,
          events |-> Append(events, Event(start_time, looped, "bg", ref, section))]

\* Closing the active background at current_time: load it and, when the segment
\* is usable, append its event.  section is the section in which it was opened.
\* returns is FALSE when create_looped_segment does not return.
CloseBackground(active, current_time, events, sound) ==
    LET start_time == active[1].start_time
        bg_config == active[1].bg_config
        r == load_background_audio(bg_config, sound)
    IN  IF r.raised # NoError THEN [raised |-> r.raised, returns |-> TRUE, events |-> events]
        ELSE IF SegmentTruthy(r.segment)
        THEN AppendLooped(events, start_time,
                          create_looped_segment(r.segment[1], current_time - start_time,
                                                LoopOf(bg_config)),
                          bg_config[<<"n","a","m","e">>].s, active[1].section)
        ELSE [raised |-> NoError, returns |-> TRUE, events |-> events]

\* What process_background_audio_change returns after closing the background
\* that was active: the active_bg it returns, with what the closing did.
AfterClose(closed, active) ==
    [raised |-> closed.raised, returns |-> closed.returns, events |-> closed.events,
     active_bg |-> active]

\* process_background_audio_change for section number i: the exception raised,
\* the new active_bg and the new audio_events.  sound is the result of the
\* lookup made when a background is closed.
process_background_audio_change(section, i, active, current_time, events, sound) ==
    IF section.background_audio # None
    THEN AfterClose(IF active # None THEN CloseBackground(active, current_time, events, sound)
                    ELSE [raised |-> NoError, returns |-> TRUE, events |-> events],
                    Some([start_time |-> current_time,
                          bg_config |-> section.background_audio[1],
                          section |-> i]))
    ELSE IF active # None
    THEN AfterClose(CloseBackground(active, current_time, events, sound), None)
    ELSE [raised |-> NoError, returns |-> TRUE, events |-> events, active_bg |-> active]

\* Whether process_background_audio_change looks a background up.
BackgroundLoads(active) == active # None

\* sfx_config.get("start_at", 0.0)
StartAt(sfx_config) == Get(sfx_config, <<"s","t","a","r","t","_","a","t">>, Num(0, 0))

\* The sound-effect loop of process_audiobook over effects[k..], sounds[k] the
\* result of the k-th lookup.
RECURSIVE SoundEffectLoop(_, _, _, _, _, _)
SoundEffectLoop(effects, sounds, k, i, current_time, events) ==
    IF k > Len(effects) THEN [raised |-> NoError, events |-> events, loaded |-> k - 1]
    ELSE LET sfx_config == effects[k]
             r == load_sound_effect(sfx_config, sounds[k])
         IN  IF r.raised # NoError THEN [raised |-> r.raised, events |-> events, loaded |-> k]
             ELSE IF ~SegmentTruthy(r.segment)
             THEN SoundEffectLoop(effects, sounds, k + 1, i, current_time, events)
             ELSE IF StartAt(sfx_config).t # "num"
             THEN [raised |-> IF StartAt(sfx_config).t = "str" THEN TypeError("start_at")
                              ELSE OverflowError("start_at"),
                   events |-> events, loaded |-> k]
             ELSE SoundEffectLoop(effects, sounds, k + 1, i, current_time,
                      Append(events,
                             Event(current_time + Times1000(StartAt(sfx_config)), r.segment[1],
                                   "sfx", sfx_config[<<"i","d">>].s, i)))

\* `if not section.voice` in generate_voice_audio: None and "" are both false.
VoiceMissing(section) == section.voice = None \/ section.voice[1] = <<>>

\* generate_voice_audio checking the voice after the synthesis call.
generate_voice_audio_checkLate(section, out) ==
    IF out < 0
    THEN [raised |-> SynthesisError, called |-> TRUE, len |-> 0]
    ELSE IF VoiceMissing(section)
    THEN [raised |-> ValueError("No voice specified for section"), called |-> TRUE, len |-> 0]
    ELSE [raised |-> NoError, called |-> TRUE, len |-> out]

\* generate_voice_audio, out the outcome of api_client.tts_synthesize (a length in
\* ms, or -1 when it raises): the exception raised, whether tts_synthesize was
\* called, and the length of the returned segment.
generate_voice_audio(section, out) ==
    IF VoiceMissing(section)
    THEN [raised |-> ValueError("No voice specified for section"), called |-> FALSE, len |-> 0]
    ELSE IF out < 0
    THEN [raised |-> SynthesisError, called |-> TRUE, len |-> 0]
    ELSE [raised |-> NoError, called |-> TRUE, len |-> out]

\* max(start + len(segment) for start, segment in audio_events), for a list that
\* is not empty.
RECURSIVE MaxEnd(_)
MaxEnd(events) ==
    IF Len(events) = 1 THEN Head(events).start + Head(events).len
    ELSE Max(Head(events).start + Head(events).len, MaxEnd(Tail(events)))

\* AudioSegment.silent(duration=d): the length in ms of the segment; no frame
\* when d is negative.
silent(d) == Max(0, d)

\* mix_audio_events taking the end of the last event for the total duration.
mix_audio_events_lastEnd(events) ==
    IF events = <<>> THEN 0
    ELSE silent(events[Len(events)].start + events[Len(events)].len)

\* mix_audio_events: the length in ms of the combined segment, which every
\* overlay leaves as long as the silent segment it started from.
mix_audio_events(events) == IF events = <<>> THEN 0 ELSE silent(MaxEnd(events))

\* The position mix_audio_events passes to overlay for an event.
overlay_position(event) == event.start
(***************************************************************************)
(* The documents and the injected section lists                            *)
(***************************************************************************)
\* Longest document, in fragments, that Init composes.
MaxFrags == 3

\* A directive: {{{body}}}
Tag(body) == <<"{","{","{">> \o body \o <<"}","}","}">>

\* The pieces the documents are composed of.
Fragments ==
    { Tag(<<"v","o","i","c","e",":","a">>), Tag(<<"v","o","i","c","e",":">>), Tag(<<"b","g",":","m">>), Tag(<<"b","g",":","s","t","o","p">>), Tag(<<"s","f","x",":","d">>),
      <<"X">>, <<" ">>, Tag(<<"n","o","p","e",":","x">>), Tag(<<"v","o","i","c","e">>), Tag(<<"B","G",":","n",",","v","o","l","u","m","e",":","0">>) }

RECURSIVE Concat(_)
Concat(ss) == IF ss = <<>> THEN <<>> ELSE Head(ss) \o Concat(Tail(ss))

\* Every concatenation of at most MaxFrags fragments.
ComposedDocs ==
    UNION {{Concat(fs) : fs \in [1..n -> Fragments]} : n \in 0..MaxFrags}

\* The end-to-end scenario of the specification.
ScenarioDoc ==
    <<"{","{","{","v","o","i","c","e",":","v","1","}","}","}","H","e","l","l","o",".","{","{","{","b","g",":","a","m","b","i","e","n","t",",","v","o","l","u","m","e",":","0",".","3","}","}","}","{","{","{","s","f","x",":","d","o","o","r","}","}","}","{","{","{","v","o","i","c","e",":","v","2","}","}","}","W","o","r","l","d",".","{","{","{","b","g",":","s","t","o","p","}","}","}">>

\* Documents of tests/test_markup_parser.py and longer examples.
ExampleDocs ==
    { ScenarioDoc,
      <<"{","{","{","v","o","i","c","e",":","v","o","i","c","e","1","}","}","}","C","h","a","p","t","e","r"," ","1","{","{","{","v","o","i","c","e",":","v","o","i","c","e","2","}","}","}","C","h","a","p","t","e","r"," ","2">>,
      <<"{","{","{","b","g",":","m","u","s","i","c","}","}","}","P","l","a","y","i","n","g","{","{","{","b","g",":","s","t","o","p","}","}","}","S","t","o","p","p","e","d">>,
      <<"{","{","{","s","f","x",":","d","o","o","r","_","k","n","o","c","k","}","}","}","S","o","m","e","o","n","e"," ","k","n","o","c","k","e","d">>,
      <<"{","{","{","b","g",":","m","u","s","i","c",":","e","x","t","r","a","}","}","}","T","e","x","t">>,
      <<"{","{","{"," ","v","o","i","c","e"," ",":"," ","v","o","i","c","e","1"," ","}","}","}","T","e","x","t">>,
      <<"{","{","{","v","o","i","c","e",":","a","}","}","}","{","{","{","b","g",":","m","}","}","}","X","{","{","{","v","o","i","c","e",":","b","}","}","}","Y","{","{","{","b","g",":","s","t","o","p","}","}","}","Z">>,
      <<"{","{","{","v","o","i","c","e",":","a","}","}","}","{","{","{","b","g",":","m",",","v","o","l","u","m","e",":","0",".","5","}","}","}","X","{","{","{","b","g",":","n",",","l","o","o","p",":","f","a","l","s","e","}","}","}","Y">>,
      <<"{","{","{","v","o","i","c","e",":","a","}","}","}","X","{","{","{","v","o","i","c","e",":","}","}","}","Y">>,
      <<"{","{","{","v","o","i","c","e",":","a","}","}","}","{","{","{","b","g",":","m","}","}","}","X","{","{","{","s","f","x",":","d","}","}","}","Y","{","{","{","n","o","p","e",":","x","}","}","}","Z">>,
      <<"{","{","{","b","g",":","m","u","s","i","c",",","v","o","l","u","m","e",":","0",".","8",",","l","o","o","p",":","t","r","u","e","}","}","}","T","e","x","t">>,
      <<"{","{","{","b","g",":","m","u","s","i","c",",","v","o","l",":","0",".","5",",","f","a","d","e",":","1",".","0",",","l","o","o","p",":","t","r","u","e",",","d","u","c","k",":","0",".","2","}","}","}","T","e","x","t">>,
      <<"\n"," ","{","{","{","v","o","i","c","e",":","n","}","}","}","\n"," ","{","{","{","b","g",":","f",",","v","o","l","u","m","e",":","0",".","3","}","}","}","\n"," ","I","n",","," ","{","{","{","s","f","x",":","o","w","l","}","}","}","a","n"," ","o","w","l",".","\n"," ","{","{","{","v","o","i","c","e",":","c","}","}","}","\n"," ","{","{","{","b","g",":","s","t","o","p","}","}","}","\n"," ","W","h","o","?","\n"," ">>,
      <<"{","{","{","v","o","i","c","e",":","v","o","i","c","e","1","T","e","x","t">>,
      <<"{","{","{","}","}","}","T","e","x","t">>,
      <<"{","{","{","v","o","i","c","e",":","a","}","}","}","X","{","{","{","}","}","}","Y","{","{","{","b","g",":","m">>,
      <<"{","{","{","v","o","i","c","e",":","v","o","i","c","e","1","}","}","}","T","e","x","t","{","{","{","b","g",":","m","u","s","i","c">>,
      <<"{","{","{","b","g",":","m",",","f","a","d","e","-","i","n",":","2","}","}","}","X">>,
      <<"{","{","{","b","g",":","m",",","v","o","l","u","m","e"," ",":"," ","0",".","5",","," ","l","o","o","p",":"," ","n","o"," ",",","l","o","o","p",":","1","e","1","}","}","}","X">>,
      <<"{","{","{","b","g",":","m","u","s","i","c",","," ","l","o","o","p",":"," ","t","r","u","e"," ","}","}","}","T","e","x","t">>,
      <<"{","{","{","v","o","i","c","e",":","a","}","}","}","{","{","{","b","g",":","m",",","v","o","l","u","m","e",":","l","o","u","d","}","}","}","X","{","{","{","b","g",":","s","t","o","p","}","}","}","Y">> }

Docs == ComposedDocs \cup ExampleDocs

\* sound_effects entries and background_audio values of injected sections.
SfxD == <<"i","d">> :> Str(<<"d">>)

SfxE == (<<"i","d">> :> Str(<<"e">>)) @@ (<<"s","t","a","r","t","_","a","t">> :> Num(5, -1))

SfxZ == (<<"i","d">> :> Str(<<"z">>)) @@ (<<"v","o","l","u","m","e">> :> Num(0, 0))

BgM == <<"n","a","m","e">> :> Str(<<"m">>)

BgN == (<<"n","a","m","e">> :> Str(<<"n">>)) @@ (<<"l","o","o","p">> :> Num(0, 0))

\* The sections a patched parse_audiobook_markup returns (tests/test_main.py
\* patches it to hand process_audiobook its sections).
SectionPool ==
    { MarkupSection(<<"X">>, Some(<<"a">>), <<SfxD>>, Some(BgM)),
      MarkupSection(<<"Y">>, None, <<>>, None),
      MarkupSection(<<>>, Some(<<"a">>), <<SfxD, SfxE>>, None),
      MarkupSection(<<"Y">>, Some(<<"b">>), <<SfxZ>>, Some(BgN)) }

SectionLists == UNION {[1..n -> SectionPool] : n \in 0..MaxSections}

(***************************************************************************)
(* process_audiobook                                                       *)
(***************************************************************************)
VARIABLES
    markup_text,    \* the markup_text argument
    pc,             \* where process_audiobook is
    sections,       \* the local sections
    idx,            \* the number of the section the loop is at
    current_time,   \* the local current_time, in ms
    active_bg,      \* the local active_bg: None or Some([start_time, bg_config])
    audio_events,   \* the local audio_events
    task,           \* audiobook_tasks[task_id]
    calls           \* history: the calls made to the TTS backend and the sound library

VARIABLES
    loop_call       \* a call of create_looped_segment: its arguments, looped_segment, where it is

VARIABLES
    active_plugins, \* PluginLifecycle.active_plugins: the names it has an instance for
    plugin_states,  \* PluginLifecycle.plugin_states
    plugin_calls,   \* the activate_plugin and deactivate_plugin calls waiting at their await
    plugin_history  \* history: the calls that returned, in the order they returned

VARIABLES
    active_conversations,   \* ConversationManager.active_conversations: its keys (id |-> sessions[id])
    frontend_connections,   \* ConversationManager.frontend_connections
    sessions,               \* the ConversationSession objects made: is_active, backend_ws
    session_tasks,          \* where the task of session.start() and its listener is
    conv_log                \* history: the calls of the manager, the dictionaries before and after

\* The variables of process_audiobook, and all variables.
job == <<markup_text, pc, sections, idx, current_time, active_bg, audio_events, task, calls>>

\* The variables of the other components.
lifecycle == <<active_plugins, plugin_states, plugin_calls, plugin_history>>

conversations == <<active_conversations, frontend_connections, sessions, session_tasks, conv_log>>

others == <<loop_call, lifecycle, conversations>>

vars == <<markup_text, pc, sections, idx, current_time, active_bg, audio_events, task, calls,
          parser, log, others>>

\* audiobook_tasks[task_id] as audiobook_generate leaves it.
Processing == [status |-> "processing", error |-> NoError, audio_data |-> None, sections_count |-> 0]

Failed(e) == [status |-> "failed", error |-> e, audio_data |-> None, sections_count |-> 0]

Completed(len, n) == [status |-> "completed", error |-> NoError, audio_data |-> Some(len), sections_count |-> n]

Call(op, section, ref, result) == [op |-> op, section |-> section, ref |-> ref, result |-> result]

\* What a lookup result is logged as.
LookupResult(sound) == <<sound.found, sound.length>>

\* No call of create_looped_segment on its own.
NoLoopCall == [segment |-> 0, duration_ms |-> 0, loop |-> FALSE, looped_segment |-> 0, pc |-> "none"]

\* The other components at rest.
\* PluginLifecycle.__init__; no call made.
InitLifecycle ==
    /\ active_plugins = {}
    /\ plugin_states = [n \in {} |-> "inactive"]
    /\ plugin_calls = {}
    /\ plugin_history = <<>>

\* ConversationManager.__init__; no call made.
InitManager ==
    /\ active_conversations = {}
    /\ frontend_connections = [c \in {} |-> {}]
    /\ sessions = [c \in {} |-> {}]
    /\ session_tasks = [c \in {} |-> "done"]
    /\ conv_log = <<>>

InitOthers == loop_call = NoLoopCall /\ InitLifecycle /\ InitManager

\* process_audiobook about to start, the parser fresh, nothing logged.
InitJob ==
    /\ pc = "parse"
    /\ sections = <<>>
    /\ idx = 0
    /\ current_time = 0
    /\ active_bg = None
    /\ audio_events = <<>>
    /\ task = Processing
    /\ calls = <<>>
    /\ parser = ParserInit
    /\ log = <<>>

InitLocals == InitOthers /\ InitJob

Init == markup_text \in Docs /\ InitLocals

\* The except block of process_audiobook.
Fail(e) ==
    /\ task' = Failed(e)
    /\ pc' = "done"

\* process_audiobook inside a call of create_looped_segment that does not
\* return: nothing after the call is reached and the record stays as it is.
Loops ==
    /\ pc' = "looping"
    /\ UNCHANGED task

\* What follows the parser's return in process_audiobook.
Parsed(r) ==
    IF r.raised # NoError
    THEN Fail(r.raised) /\ UNCHANGED <<sections, idx>>
    ELSE IF r.sections = <<>>
    THEN Fail(ValueError("No valid sections found in markup")) /\ UNCHANGED <<sections, idx>>
    ELSE /\ sections' = r.sections
         /\ idx' = 1
         /\ pc' = "background"
         /\ UNCHANGED task

\* sections = parse_audiobook_markup(markup_text); if not sections: raise
ParseMarkup ==
    /\ pc = "parse"
    /\ Parsed(parse_audiobook_markup(markup_text))
    /\ UNCHANGED <<markup_text, current_time, active_bg, audio_events, calls, parser, log>>
    /\ UNCHANGED others

\* The same with parse_audiobook_markup patched to return a given section list.
ParsePatched ==
    /\ pc = "parse"
    /\ \E ss \in SectionLists : Parsed([raised |-> NoError, sections |-> ss])
    /\ UNCHANGED <<markup_text, current_time, active_bg, audio_events, calls, parser, log>>
    /\ UNCHANGED others

\* active_bg = process_background_audio_change(...) for the section at idx
Background ==
    /\ pc = "background"
    /\ \E sound \in IF BackgroundLoads(active_bg) THEN Lookups ELSE {NoRecord} :
         \E r \in {process_background_audio_change(sections[idx], idx, active_bg,
                                                  current_time, audio_events, sound)} :
             /\ calls' = IF BackgroundLoads(active_bg)
                         THEN Append(calls, Call("load_background_audio", idx,
                                                 active_bg[1].bg_config[<<"n","a","m","e">>].s,
                                                 LookupResult(sound)))
                         ELSE calls
             /\ IF r.raised # NoError
                THEN Fail(r.raised) /\ UNCHANGED <<active_bg, audio_events>>
                ELSE IF ~r.returns
                THEN Loops /\ UNCHANGED <<active_bg, audio_events>>
                ELSE /\ active_bg' = r.active_bg
                     /\ audio_events' = r.events
                     /\ pc' = "effects"
                     /\ UNCHANGED task
    /\ UNCHANGED <<markup_text, sections, idx, current_time, parser, log>>
    /\ UNCHANGED others

RECURSIVE EffectCalls(_, _, _, _)
EffectCalls(effects, sounds, n, i) ==
    IF n = 0 THEN <<>>
    ELSE Append(EffectCalls(effects, sounds, n - 1, i),
                Call("load_sound_effect", i, effects[n][<<"i","d">>].s, LookupResult(sounds[n])))

\* for sfx_config in section.sound_effects: ...
SoundEffects ==
    /\ pc = "effects"
    /\ \E sounds \in [1..Len(sections[idx].sound_effects) -> SfxLookups] :
         \E r \in {SoundEffectLoop(sections[idx].sound_effects, sounds, 1, idx,
                                  current_time, audio_events)} :
             /\ calls' = calls \o EffectCalls(sections[idx].sound_effects, sounds, r.loaded, idx)
             /\ IF r.raised # NoError
                THEN Fail(r.raised) /\ UNCHANGED audio_events
                ELSE /\ audio_events' = r.events
                     /\ pc' = "voice"
                     /\ UNCHANGED task
    /\ UNCHANGED <<markup_text, sections, idx, current_time, active_bg, parser, log>>
    /\ UNCHANGED others

\* The end of one iteration of the section loop.
NextSection ==
    /\ idx' = idx + 1
    /\ pc' = IF idx = Len(sections) THEN "final_background" ELSE "background"
    /\ UNCHANGED task

\* The voice step appending its event after the cursor has advanced.
Voice_lateEvent ==
    /\ pc = "voice"
    /\ LET section == sections[idx]
       IN  IF strip(section.text) = <<>>
           THEN NextSection /\ UNCHANGED <<current_time, audio_events, calls>>
           ELSE \E out \in SynthLens \cup {-1} :
                  \E r \in {generate_voice_audio(section, out)} :
                      /\ calls' = IF r.called
                                  THEN Append(calls, Call("tts_synthesize", idx, section.voice,
                                                          <<IF out < 0 THEN "raise" ELSE "ok", Max(out, 0)>>))
                                  ELSE calls
                      /\ IF r.raised # NoError
                         THEN Fail(r.raised) /\ UNCHANGED <<idx, current_time, audio_events>>
                         ELSE /\ audio_events' = Append(audio_events,
                                                        Event(current_time + r.len, r.len, "voice",
                                                              section.voice[1], idx))
                              /\ current_time' = current_time + r.len
                              /\ NextSection
    /\ UNCHANGED <<markup_text, sections, active_bg, parser, log>>
    /\ UNCHANGED others

\* if section.text.strip(): generate_voice_audio, append the event, advance
Voice ==
    /\ pc = "voice"
    /\ LET section == sections[idx]
       IN  IF strip(section.text) = <<>>
           THEN NextSection /\ UNCHANGED <<current_time, audio_events, calls>>
           ELSE \E out \in SynthLens \cup {-1} :
                  \E r \in {generate_voice_audio(section, out)} :
                      /\ calls' = IF r.called
                                  THEN Append(calls, Call("tts_synthesize", idx, section.voice,
                                                          <<IF out < 0 THEN "raise" ELSE "ok", Max(out, 0)>>))
                                  ELSE calls
                      /\ IF r.raised # NoError
                         THEN Fail(r.raised) /\ UNCHANGED <<idx, current_time, audio_events>>
                         ELSE /\ audio_events' = Append(audio_events,
                                                        Event(current_time, r.len, "voice",
                                                              section.voice[1], idx))
                              /\ current_time' = current_time + r.len
                              /\ NextSection
    /\ UNCHANGED <<markup_text, sections, active_bg, parser, log>>
    /\ UNCHANGED others

\* if active_bg: ... after the loop
FinalBackground ==
    /\ pc = "final_background"
    /\ \E sound \in IF active_bg # None THEN Lookups ELSE {NoRecord} :
         \E r \in {IF active_bg # None
                  THEN CloseBackground(active_bg, current_time, audio_events, sound)
                  ELSE [raised |-> NoError, returns |-> TRUE, events |-> audio_events]} :
             /\ calls' = IF active_bg # None
                         THEN Append(calls, Call("load_background_audio", idx,
                                                 active_bg[1].bg_config[<<"n","a","m","e">>].s,
                                                 LookupResult(sound)))
                         ELSE calls
             /\ IF r.raised # NoError
                THEN Fail(r.raised) /\ UNCHANGED audio_events
                ELSE IF ~r.returns
                THEN Loops /\ UNCHANGED audio_events
                ELSE /\ audio_events' = r.events
                     /\ pc' = "mix"
                     /\ UNCHANGED task
    /\ UNCHANGED <<markup_text, sections, idx, current_time, active_bg, parser, log>>
    /\ UNCHANGED others

\* combined_audio = mix_audio_events(audio_events); export; store the result
Mix ==
    /\ pc = "mix"
    /\ task' = Completed(mix_audio_events(audio_events), Len(sections))
    /\ pc' = "done"
    /\ UNCHANGED <<markup_text, sections, idx, current_time, active_bg, audio_events, calls,
                   parser, log>>
    /\ UNCHANGED others

Next == ParseMarkup \/ Background \/ SoundEffects \/ Voice \/ FinalBackground \/ Mix

\* process_audiobook on a document.
Spec == Init /\ [][Next]_vars

InitSched == markup_text = <<"{","{","{","v","o","i","c","e",":","v","o","i","c","e","1","}","}","}","C","h","a","p","t","e","r"," ","1">> /\ InitLocals

NextSched == ParsePatched \/ Background \/ SoundEffects \/ Voice \/ FinalBackground \/ Mix

\* process_audiobook with parse_audiobook_markup patched.
SpecSched == InitSched /\ [][NextSched]_vars

(***************************************************************************)
(* The parser's interface: parse, validate_markup and the module functions *)
(***************************************************************************)
\* Longest sequence of calls a client makes.
MaxCalls == 3

\* The texts the client calls the parser with.
ApiTexts ==
    { <<"X">>,
      <<"{","{","{","v","o","i","c","e",":","a","}","}","}","{","{","{","b","g",":","n","}","}","}","X">>,
      <<"{","{","{","v","o","i","c","e",":","b","}","}","}","Y","{","{","{","b","g",":","m",",","v","o","l","u","m","e",":","0",".","5","}","}","}","Z">>,
      <<"{","{","{","b","g",":","n","}","}","}","X","{","{","{","n","o","p","e",":","x","}","}","}","Y","{","{","{","v","o","i","c","e">>,
      <<"X","{","{","{","b","g",":","s","t","o","p","}","}","}","{","{","{","v","o","i","c","e",":","}","}","}">> }

\* An entry of log: the call, the parser state it found and left, and what it
\* raised or returned.
Entry(op, text, before, r, returned, issues) ==
    [op |-> op, text |-> text, before |-> before, after |-> r.self, raised |-> r.raised,
     sections |-> returned, issues |-> issues]

\* parser.parse(text) on the client's parser.
CallParse ==
    /\ Len(log) < MaxCalls
    /\ \E text \in ApiTexts :
         \E r \in {parse(parser, text)} :
             /\ parser' = r.self
             /\ log' = Append(log, Entry("parse", text, parser, r, r.sections, <<>>))
    /\ UNCHANGED job
    /\ UNCHANGED others

\* parser.validate_markup(text) on the client's parser.
CallValidateMarkup ==
    /\ Len(log) < MaxCalls
    /\ \E text \in ApiTexts :
         \E r \in {validate_markup(parser, text)} :
             /\ parser' = r.self
             /\ log' = Append(log, Entry("validate_markup", text, parser, r, <<>>, r.issues))
    /\ UNCHANGED job
    /\ UNCHANGED others

\* parse_audiobook_markup(text): the client's parser is not involved.
CallParseAudiobookMarkup ==
    /\ Len(log) < MaxCalls
    /\ \E text \in ApiTexts :
         \E r \in {parse_audiobook_markup(text)} :
             log' = Append(log, Entry("parse_audiobook_markup", text, parser,
                                      [r EXCEPT !.self = parser], r.sections, <<>>))
    /\ UNCHANGED <<job, parser>>
    /\ UNCHANGED others

InitApi == markup_text = <<>> /\ InitLocals

NextApi == CallParse \/ CallValidateMarkup \/ CallParseAudiobookMarkup

\* A client of the parser making up to MaxCalls calls.
SpecApi == InitApi /\ [][NextApi]_vars

\* validate_audiobook_markup(text) as audiobook_generate calls it on the text it
\* is given.
ValidateDocument ==
    /\ log = <<>>
    /\ \E r \in {validate_audiobook_markup(markup_text)} :
           log' = <<Entry("validate_audiobook_markup", markup_text, parser,
                          [r EXCEPT !.self = parser], <<>>, r.issues)>>
    /\ UNCHANGED <<job, parser>>
    /\ UNCHANGED others

\* Texts with braces that do not pair off.
BraceDocs ==
    { <<"{","{","{","{","v","o","i","c","e",":","a","}","}","}","}","X">>, <<"{","{","{","{","{","{","v","o","i","c","e",":","a","}","}","}","X">>, <<"{","{","{","v","o","i","c","e",":","a","}","}","}","}","}","}","X">>, <<"{","{","{","a","}","b","}","}","}","X">>,
      <<"{","{","{","v","o","i","c","e",":","a","}","}","}","X","}","}","}">>, <<"{","{","{","{","n","o","p","e","}","}","}","{","{","{">>, <<"}","}","}","{","{","{">>, <<"{","{","{","{","{","{","}","}","}","}","}","}">>,
      <<"{","{","{","n","o","p","e",":","x","}","}","}","{","{","{","v","o","i","c","e","}","}","}","X","{","{","{">>,
      <<"{","{","{","i","n","v","a","l","i","d",":","c","o","m","m","a","n","d","}","}","}","T","e","x","t","{","{","{","b","g",":","m","u","s","i","c">>, <<"{","{","{","v","o","i","c","e",":","v","o","i","c","e","1","}","}","}","T","e","x","t","{","{","{","b","g",":","m","u","s","i","c","}","}","}","M","o","r","e"," ","t","e","x","t">> }

InitValidate == markup_text \in Docs \cup BraceDocs /\ InitLocals

\* validate_audiobook_markup on a document.
SpecValidate == InitValidate /\ [][ValidateDocument]_vars

(***************************************************************************)
(* The audiobook endpoint                                                  *)
(***************************************************************************)
\* No entry of audiobook_tasks for the request.
NoTask == [status |-> "absent", error |-> NoError, audio_data |-> None, sections_count |-> 0]

\* raise HTTPException(status_code=400, ...): no entry is made in
\* audiobook_tasks and process_audiobook is not scheduled.
Rejects ==
    /\ pc' = "rejected"
    /\ UNCHANGED task

\* audiobook_generate: the text is checked and validated; an accepted request
\* gets its entry in audiobook_tasks and process_audiobook is scheduled for it.
audiobook_generate ==
    /\ pc = "request"
    /\ IF strip(markup_text) = <<>>
       THEN Rejects /\ UNCHANGED log
       ELSE \E r \in {validate_audiobook_markup(markup_text)} :
               /\ log' = <<Entry("validate_audiobook_markup", markup_text, parser,
                                 [r EXCEPT !.self = parser], <<>>, r.issues)>>
               /\ IF r.issues # <<>>
                  THEN Rejects
                  ELSE /\ task' = Processing
                       /\ pc' = "parse"
    /\ UNCHANGED <<markup_text, sections, idx, current_time, active_bg, audio_events, calls,
                   parser>>
    /\ UNCHANGED others

InitEndpoint ==
    /\ InitOthers
    /\ markup_text \in Docs \cup BraceDocs
    /\ pc = "request"
    /\ sections = <<>>
    /\ idx = 0
    /\ current_time = 0
    /\ active_bg = None
    /\ audio_events = <<>>
    /\ task = NoTask
    /\ calls = <<>>
    /\ parser = ParserInit
    /\ log = <<>>

NextEndpoint == audiobook_generate \/ Next

\* A request to the audiobook endpoint and the job it schedules.
SpecEndpoint == InitEndpoint /\ [][NextEndpoint]_vars

(***************************************************************************)
(* mix_audio_events on its own                                             *)
(***************************************************************************)
\* Longest event list given to mix_audio_events.
MaxEvents == 2

\* The events given to mix_audio_events: start times before, at and after the
\* start of the output, segments of two lengths.
MixEvents == {Event(start, len, "sfx", <<"d">>, 1) : start \in {-500, 0, 500, 1500}, len \in {400, 1000}}

MixEventLists == UNION {[1..n -> MixEvents] : n \in 0..MaxEvents}

InitMix ==
    /\ InitOthers
    /\ markup_text = <<>>
    /\ pc = "mix"
    /\ sections = <<>>
    /\ idx = 1
    /\ current_time = 0
    /\ active_bg = None
    /\ audio_events \in MixEventLists
    /\ task = Processing
    /\ calls = <<>>
    /\ parser = ParserInit
    /\ log = <<>>

\* mix_audio_events on an event list.
SpecMix == InitMix /\ [][Mix]_vars

(***************************************************************************)
(* create_looped_segment on its own                                        *)
(***************************************************************************)
\* Lengths in ms of the segment given to create_looped_segment: an empty
\* buffer and buffers shorter than, as long as and longer than the spans.
LoopSegments == {0, 300, 400, 1000, 2500}

\* The duration_ms given to create_looped_segment.
LoopDurations == {0, 500, 1000, 1500, 2000, 3000}

\* What one pass of the while loop adds to looped_segment.
LoopAdds(remaining, seglen) ==
    IF ~flt(remaining, duration_seconds(seglen)) THEN seglen
    ELSE Min(seglen, int(fmul(remaining, 1000)))

\* The condition of the while loop.
LoopCondition(c) == flt(duration_seconds(c.looped_segment), fdiv(c.duration_ms, 1000))

\* loop is false: return segment[: int(duration_ms)]
LoopTruncate ==
    /\ loop_call.pc = "start"
    /\ ~loop_call.loop
    /\ loop_call' = [loop_call EXCEPT !.looped_segment = Min(loop_call.segment, Max(0, loop_call.duration_ms)),
                                      !.pc = "returned"]
    /\ UNCHANGED <<job, parser, log, lifecycle, conversations>>

\* loop is true: looped_segment = AudioSegment.empty()
LoopStart ==
    /\ loop_call.pc = "start"
    /\ loop_call.loop
    /\ loop_call' = [loop_call EXCEPT !.looped_segment = 0, !.pc = "while"]
    /\ UNCHANGED <<job, parser, log, lifecycle, conversations>>

\* One pass of the while loop.
LoopIteration ==
    /\ loop_call.pc = "while"
    /\ LoopCondition(loop_call)
    /\ loop_call' = [loop_call EXCEPT !.looped_segment =
           @ + LoopAdds(fsub(fdiv(loop_call.duration_ms, 1000), duration_seconds(@)),
                        loop_call.segment)]
    /\ UNCHANGED <<job, parser, log, lifecycle, conversations>>

\* The while condition is false: return looped_segment
LoopReturn ==
    /\ loop_call.pc = "while"
    /\ ~LoopCondition(loop_call)
    /\ loop_call' = [loop_call EXCEPT !.pc = "returned"]
    /\ UNCHANGED <<job, parser, log, lifecycle, conversations>>

InitLoop ==
    /\ markup_text = <<>>
    /\ InitJob
    /\ InitLifecycle
    /\ InitManager
    /\ loop_call \in [segment : LoopSegments, duration_ms : LoopDurations, loop : BOOLEAN,
                       looped_segment : {0}, pc : {"start"}]

NextLoop == LoopTruncate \/ LoopStart \/ LoopIteration \/ LoopReturn

\* A call of create_looped_segment; every step it can take is taken in the end.
SpecLoop == InitLoop /\ [][NextLoop]_vars /\ WF_vars(NextLoop)

(***************************************************************************)
(* PluginLifecycle                                                         *)
(***************************************************************************)
\* The plugin names the calls are made on.
PluginNames == {"test_plugin", "other_plugin"}

\* Most calls of activate_plugin and deactivate_plugin made.
MaxPluginCalls == 3

\* The context argument of activate_plugin: a PluginLoadContext, or None as
\* the tests pass it.
Contexts == {"PluginLoadContext", "None"}

\* self.plugin_states[plugin_name] = state
SetState(states, plugin_name, state) ==
    [n \in DOMAIN states \cup {plugin_name} |-> IF n = plugin_name THEN state ELSE states[n]]

is_plugin_active(plugin_name) ==
    /\ plugin_name \in active_plugins
    /\ plugin_name \in DOMAIN plugin_states
    /\ plugin_states[plugin_name] = "active"

get_plugin_state(plugin_name) ==
    IF plugin_name \in DOMAIN plugin_states THEN plugin_states[plugin_name] ELSE "unknown"

\* The calls made so far.
PluginCallsMade == Cardinality(plugin_calls) + Len(plugin_history)

PluginCall(id, op, plugin_name) == [id |-> id, op |-> op, plugin_name |-> plugin_name]

\* A call that returned, and what it returned.
Returned(c, returned) == [op |-> c.op, plugin_name |-> c.plugin_name, returned |-> returned]

\* activate_plugin up to its await: the state becomes initializing, the
\* argument context.plugin_config is evaluated (which raises on None: the
\* except branch marks the plugin inactive and returns False), initialize is
\* called.
activate_plugin ==
    \E plugin_name \in PluginNames, context \in Contexts :
        /\ PluginCallsMade < MaxPluginCalls
        /\ IF context = "None"
           THEN /\ plugin_states' = SetState(plugin_states, plugin_name, "inactive")
                /\ plugin_history' = Append(plugin_history,
                       Returned(PluginCall(0, "activate_plugin", plugin_name), FALSE))
                /\ UNCHANGED plugin_calls
           ELSE /\ plugin_states' = SetState(plugin_states, plugin_name, "initializing")
                /\ plugin_calls' = plugin_calls \cup
                       {PluginCall(PluginCallsMade + 1, "activate_plugin", plugin_name)}
                /\ UNCHANGED plugin_history
        /\ UNCHANGED <<active_plugins, job, parser, log, loop_call, conversations>>

\* activate_plugin from its await on: initialize returned (the plugin is
\* recorded and marked active, True is returned) or raised (it is marked
\* inactive, False is returned).
activate_plugin_resumes ==
    \E c \in plugin_calls, initialized \in BOOLEAN :
        /\ c.op = "activate_plugin"
        /\ IF initialized
           THEN /\ active_plugins' = active_plugins \cup {c.plugin_name}
                /\ plugin_states' = SetState(plugin_states, c.plugin_name, "active")
           ELSE /\ plugin_states' = SetState(plugin_states, c.plugin_name, "inactive")
                /\ UNCHANGED active_plugins
        /\ plugin_calls' = plugin_calls \ {c}
        /\ plugin_history' = Append(plugin_history, Returned(c, initialized))
        /\ UNCHANGED <<job, parser, log, loop_call, conversations>>

\* deactivate_plugin up to its await: the state becomes deactivating,
\* shutdown is called.
deactivate_plugin ==
    \E plugin_name \in PluginNames :
        /\ PluginCallsMade < MaxPluginCalls
        /\ plugin_states' = SetState(plugin_states, plugin_name, "deactivating")
        /\ plugin_calls' = plugin_calls \cup
               {PluginCall(PluginCallsMade + 1, "deactivate_plugin", plugin_name)}
        /\ UNCHANGED <<active_plugins, plugin_history, job, parser, log, loop_call, conversations>>

\* deactivate_plugin from its await on, shutdown raising: the except branch
\* leaves the state as it is.
deactivate_plugin_resumes_keepsState ==
    \E c \in plugin_calls, shut_down \in BOOLEAN :
        /\ c.op = "deactivate_plugin"
        /\ IF shut_down
           THEN /\ active_plugins' = active_plugins \ {c.plugin_name}
                /\ plugin_states' = SetState(plugin_states, c.plugin_name, "inactive")
           ELSE UNCHANGED <<active_plugins, plugin_states>>
        /\ plugin_calls' = plugin_calls \ {c}
        /\ plugin_history' = Append(plugin_history, Returned(c, shut_down))
        /\ UNCHANGED <<job, parser, log, loop_call, conversations>>

\* deactivate_plugin from its await on: shutdown returned (the plugin is
\* removed when recorded and marked inactive, True is returned) or raised (it
\* stays recorded and is marked inactive, False is returned).
deactivate_plugin_resumes ==
    \E c \in plugin_calls, shut_down \in BOOLEAN :
        /\ c.op = "deactivate_plugin"
        /\ IF shut_down
           THEN active_plugins' = active_plugins \ {c.plugin_name}
           ELSE UNCHANGED active_plugins
        /\ plugin_states' = SetState(plugin_states, c.plugin_name, "inactive")
        /\ plugin_calls' = plugin_calls \ {c}
        /\ plugin_history' = Append(plugin_history, Returned(c, shut_down))
        /\ UNCHANGED <<job, parser, log, loop_call, conversations>>

InitPlugins ==
    /\ markup_text = <<>>
    /\ InitJob
    /\ loop_call = NoLoopCall
    /\ InitLifecycle
    /\ InitManager

NextPlugins ==
    activate_plugin \/ activate_plugin_resumes \/ deactivate_plugin \/ deactivate_plugin_resumes

\* Calls of activate_plugin and deactivate_plugin, one running while another
\* waits.
SpecPlugins == InitPlugins /\ [][NextPlugins]_vars

(***************************************************************************)
(* ConversationManager                                                     *)
(***************************************************************************)
\* Most calls of start_conversation, end_conversation and
\* remove_frontend_connection made.
MaxConvCalls == 3

\* The frontend websockets.
WebSockets == {"ws1", "ws2"}

\* The conversation id the tests give ("test_conv", "nonexistent"): never one
\* that uuid4 returns.
GivenId == 0

\* The ids uuid4 returns, in the order it returns them.
NewIds == 1..MaxConvCalls

\* conversation_id = str(uuid.uuid4()): an id not returned before.
NewId == 1 + Cardinality(DOMAIN sessions \ {GivenId})

\* dict[key] = value
Put(dict, key, value) == [k \in DOMAIN dict \cup {key} |-> IF k = key THEN value ELSE dict[k]]

\* del dict[key]
Del(dict, key) == [k \in DOMAIN dict \ {key} |-> dict[k]]

\* ConversationSession.__init__
NewSession == [is_active |-> FALSE, backend_ws |-> "None"]

\* The two dictionaries of the manager.
Dicts(active, frontend) == [active_conversations |-> active, frontend_connections |-> frontend]

\* An entry of conv_log.
ManagerCall(op, conversation_id, websocket, before, after) ==
    [op |-> op, conversation_id |-> conversation_id, websocket |-> websocket,
     before |-> before, after |-> after]

\* The call is logged with the dictionaries it leaves.
Logged(op, conversation_id, websocket, active, frontend) ==
    /\ active_conversations' = active
    /\ frontend_connections' = frontend
    /\ conv_log' = Append(conv_log,
           ManagerCall(op, conversation_id, websocket,
                       Dicts(active_conversations, frontend_connections), Dicts(active, frontend)))

\* start_conversation: a session under a new id, the websocket as its one
\* frontend connection, session.start() scheduled as a task.
start_conversation ==
    \E websocket \in WebSockets, conversation_id \in {NewId} :
        /\ Len(conv_log) < MaxConvCalls
        /\ sessions' = Put(sessions, conversation_id, NewSession)
        /\ session_tasks' = Put(session_tasks, conversation_id, "scheduled")
        /\ Logged("start_conversation", conversation_id, websocket,
                  active_conversations \cup {conversation_id},
                  Put(frontend_connections, conversation_id, {websocket}))
        /\ UNCHANGED <<job, parser, log, loop_call, lifecycle>>

\* ConversationSession.stop: is_active = False; backend_ws, when set, is
\* closed (an error of close is logged).
stop(session) ==
    [is_active |-> FALSE,
     backend_ws |-> IF session.backend_ws = "None" THEN "None" ELSE "closed"]

\* The sessions after end_conversation: the session of a known conversation
\* is stopped.
SessionsEnded(conversation_id) ==
    IF conversation_id \in active_conversations
    THEN [sessions EXCEPT ![conversation_id] = stop(@)]
    ELSE sessions

\* frontend_connections after end_conversation, from frontend: the
\* connections of the conversation are closed (an error of close is logged)
\* and its entry is deleted.
FrontendEnded(frontend, conversation_id) ==
    IF conversation_id \in DOMAIN frontend THEN Del(frontend, conversation_id) ELSE frontend

\* end_conversation
end_conversation ==
    \E conversation_id \in {GivenId} \cup NewIds :
        /\ Len(conv_log) < MaxConvCalls
        /\ sessions' = SessionsEnded(conversation_id)
        /\ Logged("end_conversation", conversation_id, "None",
                  active_conversations \ {conversation_id},
                  FrontendEnded(frontend_connections, conversation_id))
        /\ UNCHANGED <<session_tasks, job, parser, log, loop_call, lifecycle>>

\* remove_frontend_connection with a conversation that has connections: the
\* websocket is discarded; when none is left the conversation is ended.
Removed(conversation_id, websocket, left) ==
    IF left = {}
    THEN /\ sessions' = SessionsEnded(conversation_id)
         /\ Logged("remove_frontend_connection", conversation_id, websocket,
                   active_conversations \ {conversation_id},
                   Del(frontend_connections, conversation_id))
    ELSE /\ Logged("remove_frontend_connection", conversation_id, websocket,
                   active_conversations, Put(frontend_connections, conversation_id, left))
         /\ UNCHANGED sessions

remove_frontend_connection ==
    \E conversation_id \in {GivenId} \cup NewIds, websocket \in WebSockets :
        /\ Len(conv_log) < MaxConvCalls
        /\ IF conversation_id \in DOMAIN frontend_connections
           THEN Removed(conversation_id, websocket,
                        frontend_connections[conversation_id] \ {websocket})
           ELSE /\ Logged("remove_frontend_connection", conversation_id, websocket,
                          active_conversations, frontend_connections)
                /\ UNCHANGED sessions
        /\ UNCHANGED <<session_tasks, job, parser, log, loop_call, lifecycle>>

\* The task of session.start() runs: is_active = True, then it waits for
\* websockets.connect.
session_start ==
    \E conversation_id \in DOMAIN session_tasks :
        /\ session_tasks[conversation_id] = "scheduled"
        /\ sessions' = [sessions EXCEPT ![conversation_id].is_active = TRUE]
        /\ session_tasks' = [session_tasks EXCEPT ![conversation_id] = "connecting"]
        /\ UNCHANGED <<active_conversations, frontend_connections, conv_log,
                       job, parser, log, loop_call, lifecycle>>

\* websockets.connect returns (backend_ws is set and the listener is
\* started) or raises (the error is logged).
session_connect ==
    \E conversation_id \in DOMAIN session_tasks, connected \in BOOLEAN :
        /\ session_tasks[conversation_id] = "connecting"
        /\ IF connected
           THEN /\ sessions' = [sessions EXCEPT ![conversation_id].backend_ws = "open"]
                /\ session_tasks' = [session_tasks EXCEPT ![conversation_id] = "listening"]
           ELSE /\ session_tasks' = [session_tasks EXCEPT ![conversation_id] = "done"]
                /\ UNCHANGED sessions
        /\ UNCHANGED <<active_conversations, frontend_connections, conv_log,
                       job, parser, log, loop_call, lifecycle>>

\* _listen_to_backend ends (the session is not active, or the connection is
\* closed or fails): backend_ws = None
listen_to_backend ==
    \E conversation_id \in DOMAIN session_tasks :
        /\ session_tasks[conversation_id] = "listening"
        /\ sessions' = [sessions EXCEPT ![conversation_id].backend_ws = "None"]
        /\ session_tasks' = [session_tasks EXCEPT ![conversation_id] = "done"]
        /\ UNCHANGED <<active_conversations, frontend_connections, conv_log,
                       job, parser, log, loop_call, lifecycle>>

\* A session that was started and is connected, its tasks not followed.
StartedSession == [is_active |-> TRUE, backend_ws |-> "open"]

\* The manager as made, or as the tests set it up: a conversation under the
\* given id with both websockets or one as its frontend connections.
InitConversations ==
    /\ markup_text = <<>>
    /\ InitJob
    /\ loop_call = NoLoopCall
    /\ InitLifecycle
    /\ conv_log = <<>>
    /\ \/ InitManager
       \/ /\ active_conversations = {GivenId}
          /\ frontend_connections \in [{GivenId} -> {WebSockets, {"ws1"}}]
          /\ sessions = [c \in {GivenId} |-> StartedSession]
          /\ session_tasks = [c \in {GivenId} |-> "done"]

NextConversations ==
    \/ start_conversation
    \/ end_conversation
    \/ remove_frontend_connection
    \/ session_start
    \/ session_connect
    \/ listen_to_backend

\* The calls of the manager, and the tasks its sessions run in between.
SpecConversations == InitConversations /\ [][NextConversations]_vars
(***************************************************************************)
(* The document as the claims read it                                      *)
(***************************************************************************)
\* The alternating text / directive-body list of the document.
DocParts == MARKUP_PATTERN_split(markup_text)

\* The directive bodies' positions.
BodyParts == {j \in DOMAIN DocParts : j % 2 = 0}

\* The text spans that are not blank.
TextParts == {i \in DOMAIN DocParts : i % 2 = 1 /\ strip(DocParts[i]) # <<>>}

\* The position of the k-th non-blank text span (0 for k = 0).
SectionPart(k) ==
    IF k = 0 THEN 0
    ELSE CHOOSE i \in TextParts : Cardinality({j \in TextParts : j <= i}) = k

Commands == {<<"v","o","i","c","e">>, <<"s","f","x">>, <<"b","g">>}

\* The text before the first colon, trimmed.
RawCommand(body) == strip(SubSeq(body, 1, IndexOf(body, ":") - 1))

\* The text between the first colon and the first comma after it, trimmed.
DirectiveValue(body) ==
    LET colon == IndexOf(body, ":")
        comma == IndexFrom(body, ",", colon + 1)
    IN  strip(SubSeq(body, colon + 1, IF comma = 0 THEN Len(body) ELSE comma - 1))

\* The last directive with command cmd before position i, or 0.
LastDirective(i, cmd) ==
    LET js == {j \in BodyParts : j < i /\ IndexOf(DocParts[j], ":") > 0
                                  /\ lower(RawCommand(DocParts[j])) = cmd}
    IN  IF js = {} THEN 0 ELSE CHOOSE j \in js : \A j2 \in js : j2 <= j

\* The interpreter rejects the body.
Rejected(body) == _parse_markup(ParserInit, body).raised # NoError

\* The state in which parse_audiobook_markup has just returned its sections.
AfterParse == pc = "background" /\ idx = 1

\* The state in which the parsing step of process_audiobook has just ended: with
\* its sections, or with the job failed before any section was stored.
ParseDone == AfterParse \/ (pc = "done" /\ idx = 0)

\* {"id": value, **options}
SfxDict(value, options) ==
    [k \in DOMAIN options \cup {<<"i","d">>} |-> IF k \in DOMAIN options THEN options[k] ELSE Str(value)]

\* The sound effects of the sfx directives at positions lo+1 .. hi-1, in order.
RECURSIVE SfxBetween(_, _)
SfxBetween(lo, hi) ==
    IF lo + 1 >= hi THEN <<>>
    ELSE IF (lo + 1) \in BodyParts /\ IndexOf(DocParts[lo + 1], ":") > 0
            /\ lower(RawCommand(DocParts[lo + 1])) = <<"s","f","x">>
    THEN <<SfxDict(DirectiveValue(DocParts[lo + 1]), OptionsDictOf(DocParts[lo + 1]))>>
             \o SfxBetween(lo + 1, hi)
    ELSE SfxBetween(lo + 1, hi)

(***************************************************************************)
(* The claims                                                              *)
(***************************************************************************)
\* C1: every section parse returns carries, in order, one entry {id: value, plus
\* options} for each sfx directive between the previous section's text span and
\* its own.  The parser never fills the accumulator, so this fails on the code.
C1_SoundEffectsAttached ==
    AfterParse =>
        \A k \in DOMAIN sections :
            sections[k].sound_effects = SfxBetween(SectionPart(k - 1), SectionPart(k))

\* C2: every section's voice is the value of the last voice directive before the
\* section's text span, None when there is none; there is one section for each
\* non-blank text span.
C2_VoiceCarryForward ==
    AfterParse =>
        /\ Len(sections) = Cardinality(TextParts)
        /\ \A k \in DOMAIN sections :
              LET j == LastDirective(SectionPart(k), <<"v","o","i","c","e">>)
              IN  sections[k].voice = IF j = 0 THEN None ELSE Some(DirectiveValue(DocParts[j]))

\* C2 witness: two sections with different voices were returned.
C2_Witness ==
    /\ AfterParse
    /\ \E k1, k2 \in DOMAIN sections :
          /\ k1 < k2
          /\ sections[k1].voice # None
          /\ sections[k2].voice # None
          /\ sections[k1].voice # sections[k2].voice

\* C3: every section's background is the one set by the last bg directive before
\* the section's text span, None when there is none or when that directive is
\* bg:stop.
C3_BackgroundCarryForward ==
    AfterParse =>
        \A k \in DOMAIN sections :
            LET j == LastDirective(SectionPart(k), <<"b","g">>)
            IN  sections[k].background_audio =
                    IF j = 0 \/ lower(DirectiveValue(DocParts[j])) = <<"s","t","o","p">> THEN None
                    ELSE Some(BackgroundDict(DirectiveValue(DocParts[j]), OptionsDictOf(DocParts[j])))

\* C3 witness: a background carried over two sections and then stopped.
C3_Witness ==
    /\ AfterParse
    /\ \E k1, k2 \in DOMAIN sections :
          /\ k1 + 1 < k2
          /\ sections[k1].background_audio # None
          /\ sections[k1 + 1].background_audio = sections[k1].background_audio
          /\ sections[k2].background_audio = None

\* C4 as claimed: the interpreter rejects a body exactly when it has no colon or
\* its trimmed command is not one of voice, sfx, bg.
C4_RejectsExactlyAsClaimed ==
    ParseDone =>
        \A j \in BodyParts :
            Rejected(DocParts[j]) <=>
                (IndexOf(DocParts[j], ":") = 0 \/ RawCommand(DocParts[j]) \notin Commands)

\* C4 as amended: the interpreter rejects a body exactly when it has no colon or
\* its command, trimmed and lower-cased, is not one of voice, sfx, bg; the value
\* starts after the first colon; parse raises exactly when a body of the document
\* is rejected, and then no section is returned.
C4_RejectsExactly ==
    /\ ParseDone =>
          /\ \A j \in BodyParts :
                /\ Rejected(DocParts[j]) <=>
                       (IndexOf(DocParts[j], ":") = 0 \/ lower(RawCommand(DocParts[j])) \notin Commands)
                /\ ~Rejected(DocParts[j]) /\ lower(RawCommand(DocParts[j])) = <<"v","o","i","c","e">> =>
                       _parse_markup(ParserInit, DocParts[j]).self.current_voice
                           = Some(DirectiveValue(DocParts[j]))
                /\ ~Rejected(DocParts[j]) /\ lower(RawCommand(DocParts[j])) = <<"b","g">>
                       /\ IndexOf(DocParts[j], ",") = 0 /\ lower(DirectiveValue(DocParts[j])) # <<"s","t","o","p">> =>
                       _parse_markup(ParserInit, DocParts[j]).self.current_background
                           = Some(<<"n","a","m","e">> :> Str(strip(SubSeq(DocParts[j], IndexOf(DocParts[j], ":") + 1,
                                                              Len(DocParts[j])))))
          /\ (task.error.exc = "AudiobookMarkupError") <=> (\E j \in BodyParts : Rejected(DocParts[j]))
          /\ task.error.exc = "AudiobookMarkupError" =>
                LET j == CHOOSE j \in BodyParts :
                             Rejected(DocParts[j]) /\ \A j2 \in BodyParts : j2 < j => ~Rejected(DocParts[j2])
                IN  task.error = _parse_markup(ParserInit, DocParts[j]).raised
    /\ task.error.exc = "AudiobookMarkupError" =>
          /\ pc = "done" /\ idx = 0
          /\ task.status = "failed"
          /\ sections = <<>>

\* C4 witness: parse raised for an unknown command in a document that also holds
\* an accepted directive.
C4_Witness ==
    /\ pc = "done"
    /\ task.error.exc = "AudiobookMarkupError"
    /\ task.error.kind = "command"
    /\ \E j \in BodyParts : ~Rejected(DocParts[j])

NoVoiceError == ValueError("No voice specified for section")

\* C5: a text span with no voice directive before it parses into a section whose
\* voice is None, and a document whose directives are all accepted never fails
\* with the markup error; the missing-voice ValueError is raised when the loop
\* reaches a section with text and no voice; tts_synthesize is only ever called for
\* a section that has a voice, with that voice.
C5_MissingVoiceAtScheduling ==
    /\ AfterParse =>
          \A k \in DOMAIN sections :
              LastDirective(SectionPart(k), <<"v","o","i","c","e">>) = 0 => sections[k].voice = None
    /\ task.error.exc = "AudiobookMarkupError" =>
          pc = "done" /\ idx = 0 /\ \E j \in BodyParts : Rejected(DocParts[j])
    /\ task.error = NoVoiceError =>
          /\ pc = "done" /\ task.status = "failed"
          /\ idx \in DOMAIN sections
          /\ VoiceMissing(sections[idx])
          /\ strip(sections[idx].text) # <<>>
    /\ \A c \in DOMAIN calls :
          calls[c].op = "tts_synthesize" =>
              /\ calls[c].section \in DOMAIN sections
              /\ ~VoiceMissing(sections[calls[c].section])
              /\ calls[c].ref = sections[calls[c].section].voice

\* C5 witness: a document without any voice directive was parsed into a section
\* and the job failed with the missing-voice error on it.
C5_Witness ==
    /\ pc = "done"
    /\ task.error = NoVoiceError
    /\ sections[idx].voice = None
    /\ calls = <<>>

\* The calls made for asset lookups.
IsLoad(c) == c.op \in {"load_background_audio", "load_sound_effect"}

\* The first section the loop cannot voice: it has text and no voice (0 if none).
FirstUnvoiced ==
    LET ks == {k \in DOMAIN sections : strip(sections[k].text) # <<>> /\ VoiceMissing(sections[k])}
    IN  IF ks = {} THEN 0 ELSE CHOOSE k \in ks : \A k2 \in ks : k <= k2

\* C6 as claimed: when a job fails for an invalid directive or for a section
\* without a voice, no synthesis call and no asset load has been made.
C6_NoAudioWorkBeforeErrorAsClaimed ==
    task.status = "failed" /\ (task.error.exc = "AudiobookMarkupError" \/ task.error = NoVoiceError) =>
        calls = <<>>

\* C6 as amended: a document with a rejected directive fails with the markup
\* error before any synthesis call or asset load; a job with a section that has
\* no voice fails when the loop reaches the first such section, with no synthesis
\* call for that section or a later one and no asset load for a later section,
\* the sections before it having been synthesized.
C6_NoAudioWorkBeforeError ==
    /\ ParseDone /\ (\E j \in BodyParts : Rejected(DocParts[j])) =>
          /\ task.status = "failed" /\ task.error.exc = "AudiobookMarkupError"
          /\ calls = <<>> /\ audio_events = <<>>
    /\ task.error.exc = "AudiobookMarkupError" => calls = <<>> /\ audio_events = <<>>
    /\ task.error = NoVoiceError =>
          /\ idx = FirstUnvoiced
          /\ \A c \in DOMAIN calls :
                /\ calls[c].section <= idx
                /\ calls[c].op = "tts_synthesize" => calls[c].section < idx
          /\ \A k \in 1..(idx - 1) :
                strip(sections[k].text) # <<>> =>
                    \E c \in DOMAIN calls : calls[c].op = "tts_synthesize" /\ calls[c].section = k

\* C6 witness: the job failed for a missing voice after a synthesis call.
C6_Witness ==
    /\ task.status = "failed"
    /\ task.error = NoVoiceError
    /\ \E c \in DOMAIN calls : calls[c].op = "tts_synthesize"

\* Every lookup of the run so far resolved to a usable segment and every
\* synthesis call returned len ms.
AllResolved(len) ==
    \A c \in DOMAIN calls :
        IF IsLoad(calls[c]) THEN calls[c].result[1] = "ok" /\ calls[c].result[2] > 0
        ELSE calls[c].result = <<"ok", len>>

\* The events of audio_events, without the section that produced them.
EventSet == {[start |-> audio_events[i].start, len |-> audio_events[i].len,
              kind |-> audio_events[i].kind, ref |-> audio_events[i].ref] : i \in DOMAIN audio_events}

\* C7: the end-to-end scenario, every synthesis call returning 1000 ms and every
\* asset resolved: voice v1 at 0, sfx door at 1000, voice v2 at 1000, background
\* ambient over [1000, 2000], and a render of 2000 ms.
C7_Scenario ==
    markup_text = ScenarioDoc /\ pc = "done" /\ task.status = "completed" /\ AllResolved(1000) =>
        /\ EventSet = { [start |-> 0, len |-> 1000, kind |-> "voice", ref |-> <<"v","1">>],
                        [start |-> 1000, len |-> 1000, kind |-> "voice", ref |-> <<"v","2">>],
                        [start |-> 1000, len |-> 1000, kind |-> "bg", ref |-> <<"a","m","b","i","e","n","t">>] }
                      \cup {e \in EventSet : e.kind = "sfx"}
        /\ \E e \in EventSet : e.kind = "sfx" /\ e.ref = <<"d","o","o","r">> /\ e.start = 1000
        /\ Cardinality({e \in EventSet : e.kind = "sfx"}) = 1
        /\ Len(audio_events) = 4
        /\ task.audio_data = Some(2000)

\* The start of a background span: a section with a background that differs from
\* the background of the section before it.
SpanStarts ==
    {k \in DOMAIN sections :
        /\ sections[k].background_audio # None
        /\ k = 1 \/ sections[k - 1].background_audio # sections[k].background_audio}

BackgroundEvents == {i \in DOMAIN audio_events : audio_events[i].kind = "bg"}

\* C8: one background event per background span: with every background
\* resolved, a completed job has as many background events as spans, each
\* starting where its span starts.
C8_OneEventPerSpan ==
    pc = "done" /\ task.status = "completed"
        /\ (\A c \in DOMAIN calls : IsLoad(calls[c]) => calls[c].result[1] = "ok" /\ calls[c].result[2] > 0) =>
        /\ Cardinality(BackgroundEvents) = Cardinality(SpanStarts)
        /\ \A i \in BackgroundEvents : audio_events[i].section \in SpanStarts

\* The cursor process_audiobook is at when it reaches section k: the lengths of
\* the audio synthesized for the sections before it, from the first c calls.
RECURSIVE SynthesizedBefore(_, _)
SynthesizedBefore(k, c) ==
    IF c = 0 THEN 0
    ELSE SynthesizedBefore(k, c - 1)
             + (IF calls[c].op = "tts_synthesize" /\ calls[c].section < k /\ calls[c].result[1] = "ok"
                THEN calls[c].result[2] ELSE 0)

Cursor(k) == SynthesizedBefore(k, Len(calls))

\* A lookup that found a file with audio in it.
Usable(c) == IsLoad(c) /\ c.result[1] = "ok" /\ c.result[2] > 0

\* A lookup that found nothing: no record, or a record without its file.
FoundNothing(c) == IsLoad(c) /\ c.result[1] # "ok"

\* The errors of the stages other than asset loading.
StageErrors == {NoVoiceError, SynthesisError, ValueError("No valid sections found in markup")}

\* C9: a lookup that finds nothing skips its event and nothing else: the job never
\* fails on it (a job that fails in asset loading fails on an asset that was
\* found); as long as the job has not failed there is one event for every
\* synthesis call and for every lookup that found audio (once the buffer of a
\* found background has been built), and none for the others;
\* and every event starts where the synthesized lengths alone put it (voice and
\* background at the cursor of their section, a sound effect at that cursor plus
\* its start_at), whatever the lookups returned.
C9_AssetSkipTolerance ==
    /\ task.status = "failed" /\ task.error \notin StageErrors =>
          calls # <<>> /\ IsLoad(calls[Len(calls)]) /\ ~FoundNothing(calls[Len(calls)])
    /\ task.status # "failed" /\ pc # "looping" =>
          /\ Len(audio_events) =
                 Cardinality({c \in DOMAIN calls :
                                 Usable(calls[c]) \/ (calls[c].op = "tts_synthesize" /\ calls[c].result[1] = "ok")})
          /\ \A c \in DOMAIN calls :
                /\ calls[c].op = "tts_synthesize" =>
                      \E i \in DOMAIN audio_events :
                          /\ audio_events[i].kind = "voice" /\ audio_events[i].section = calls[c].section
                          /\ audio_events[i].len = calls[c].result[2]
                /\ calls[c].op = "load_sound_effect" /\ Usable(calls[c]) =>
                      \E i \in DOMAIN audio_events :
                          /\ audio_events[i].kind = "sfx" /\ audio_events[i].section = calls[c].section
                          /\ audio_events[i].ref = calls[c].ref
                /\ calls[c].op = "load_background_audio" /\ Usable(calls[c]) =>
                      \E i \in DOMAIN audio_events :
                          /\ audio_events[i].kind = "bg" /\ audio_events[i].section < calls[c].section
                          /\ audio_events[i].ref = calls[c].ref
    /\ \A i \in DOMAIN audio_events :
          LET e == audio_events[i]
          IN  IF e.kind = "sfx"
              THEN \E n \in DOMAIN sections[e.section].sound_effects :
                      LET sfx_config == sections[e.section].sound_effects[n]
                      IN  /\ sfx_config[<<"i","d">>].s = e.ref
                          /\ e.start = Cursor(e.section) + Times1000(StartAt(sfx_config))
              ELSE e.start = Cursor(e.section)

\* C9 witness: a job completed although a sound-effect lookup found nothing, with
\* a sound effect, a background and a voice event after the start of the timeline.
C9_Witness ==
    /\ pc = "done" /\ task.status = "completed"
    /\ \E c \in DOMAIN calls : calls[c].op = "load_sound_effect" /\ FoundNothing(calls[c])
    /\ \E i \in DOMAIN audio_events : audio_events[i].kind = "sfx" /\ audio_events[i].start > 0
    /\ \E i \in DOMAIN audio_events : audio_events[i].kind = "bg"
    /\ \E i \in DOMAIN audio_events : audio_events[i].kind = "voice" /\ audio_events[i].start > 0

\* C10: a job is marked failed only by an exception of markup parsing or of voice
\* synthesis.  The gain 20 * log10(volume) of a found asset raises for a volume
\* of 0 or a volume that is no number, and the exception fails the job.
C10_FailedOnlyParseOrSynth ==
    task.status = "failed" =>
        \/ task.error.exc = "AudiobookMarkupError"
        \/ task.error \in StageErrors

(***************************************************************************)
(* C11 .. C20                                                              *)
(***************************************************************************)
\* The synthesis calls of the run, by position in calls.
SynthCalls == {c \in DOMAIN calls : calls[c].op = "tts_synthesize"}

\* The part of C11 that is about the record and the synthesis calls: the record
\* is processing until the run is over and completed or failed from then on; and
\* when tts_synthesize raises, the record is failed with the exception that was
\* raised and without audio data, and the raising call is the last synthesis
\* call of the run.
RecordAndSynthesis ==
    /\ pc = "done" <=> task.status \in {"completed", "failed"}
    /\ pc # "done" => task = Processing
    /\ \A c \in SynthCalls :
          calls[c].result[1] = "raise" =>
              /\ pc = "done" /\ task.status = "failed"
              /\ task.error = SynthesisError
              /\ task.audio_data = None
              /\ c = Len(calls)

\* C11: every run of process_audiobook ends with the record completed or failed,
\* never left at processing: the run does not stay inside a call for ever, and
\* the record and the synthesis calls are as RecordAndSynthesis says.
C11_EndsCompletedOrFailed == pc # "looping" /\ RecordAndSynthesis

\* The lookups of a background that found audio, and the background events, in
\* the order they were made.
BackgroundCalls ==
    SelectSeq([c \in DOMAIN calls |-> c],
              LAMBDA c : calls[c].op = "load_background_audio" /\ Usable(calls[c]))

BackgroundEventSeq ==
    SelectSeq([i \in DOMAIN audio_events |-> i], LAMBDA i : audio_events[i].kind = "bg")

\* C19: the buffer built for a background span: it is built (the call that
\* builds it returns), and in a job that has not failed the n-th background event
\* is the buffer of the n-th background found, as long as the span from the
\* event's start to the cursor of the section that closed it when the
\* background loops, and as long as the shorter of the source and the span when
\* it does not.
C19_BackgroundBufferLength ==
    /\ pc # "looping"
    /\ task.status # "failed" =>
          /\ Len(BackgroundEventSeq) = Len(BackgroundCalls)
          /\ \A n \in DOMAIN BackgroundEventSeq :
                LET e == audio_events[BackgroundEventSeq[n]]
                    c == calls[BackgroundCalls[n]]
                    span == Cursor(c.section) - e.start
                IN  e.len = IF LoopOf(sections[e.section].background_audio[1]) THEN span
                            ELSE Min(c.result[2], span)

\* The lookups of the run that gave no event: nothing found, or a file without
\* audio.
SkippedEvents == {c \in DOMAIN calls : IsLoad(calls[c]) /\ ~Usable(calls[c])}

\* The fields of the record other than those process_audiobook writes (status,
\* audio_data, filename, sections_count, markup_text, error).
Annotations(rec) == DOMAIN rec \ {"status", "error", "audio_data", "sections_count"}

\* C12: a job that completed although events were skipped carries the number of
\* skipped events in its record: a field of the completed record, beyond the
\* status, the audio and the section count, holds the number of lookups that
\* gave no event.
C12_SkippedCountReported ==
    pc = "done" /\ task.status = "completed" /\ SkippedEvents # {} =>
        \E f \in Annotations(task) : task[f] = Cardinality(SkippedEvents)

\* s split on the character c.
RECURSIVE SplitOn(_, _)
SplitOn(s, c) ==
    IF IndexOf(s, c) = 0 THEN <<s>>
    ELSE <<SubSeq(s, 1, IndexOf(s, c) - 1)>> \o SplitOn(SubSeq(s, IndexOf(s, c) + 1, Len(s)), c)

\* The option pairs of a directive body: the comma-separated items after the
\* first comma that follows the first colon.
OptionItems(body) ==
    LET comma == IndexFrom(body, ",", IndexOf(body, ":") + 1)
    IN  IF comma = 0 THEN <<>> ELSE SplitOn(SubSeq(body, comma + 1, Len(body)), ",")

\* The key of an option pair, trimmed, and its value.
ItemKey(item) == strip(SubSeq(item, 1, IndexOf(item, ":") - 1))

ItemValue(item) == SubSeq(item, IndexOf(item, ":") + 1, Len(item))

\* The option pairs that give a key its value: those with a colon that no later
\* pair with the same key follows.
GivenOptions(items) ==
    {i \in DOMAIN items :
        /\ IndexOf(items[i], ":") > 0
        /\ \A i2 \in DOMAIN items :
              i2 > i /\ IndexOf(items[i2], ":") > 0 => ItemKey(items[i2]) # ItemKey(items[i])}

\* A stored option value is the coercion of the text val: the number when val
\* parses as a number, else a string with the text of val.
Coerced(stored, val) ==
    IF float(val) # None THEN stored = float(val)[1]
    ELSE stored.t = "str" /\ strip(stored.s) = strip(val)

\* C13: the background of a section has the name of its bg directive and, for
\* every option pair key:value of the directive, the key with the coerced value:
\* the number when the value parses as one, else the value as a string.
C13_OptionCoercion ==
    AfterParse =>
        \A k \in DOMAIN sections :
            LET j == LastDirective(SectionPart(k), <<"b","g">>)
            IN  j # 0 /\ lower(DirectiveValue(DocParts[j])) # <<"s","t","o","p">> =>
                    LET bg == sections[k].background_audio[1]
                        items == OptionItems(DocParts[j])
                    IN  /\ bg[<<"n","a","m","e">>] = Str(DirectiveValue(DocParts[j]))
                        /\ \A i \in GivenOptions(items) :
                              /\ ItemKey(items[i]) \in DOMAIN bg
                              /\ Coerced(bg[ItemKey(items[i])], ItemValue(items[i]))

\* Every directive of the document is valid.
AllValid == \A j \in BodyParts : ~Rejected(DocParts[j])

\* parse_audiobook_markup returned the empty list: process_audiobook raised its
\* own error for it.
ParsedNothing ==
    pc = "done" /\ idx = 0 /\ task.error = ValueError("No valid sections found in markup")

\* C14: for a document whose directives are all valid, parse returns one section
\* for each text span that is not blank, in document order, its text the trimmed
\* span; it returns the empty list exactly when no text span is non-blank.
C14_OneSectionPerTextSpan ==
    ParseDone /\ AllValid =>
        /\ ParsedNothing <=> TextParts = {}
        /\ ~ParsedNothing =>
              /\ AfterParse
              /\ Len(sections) = Cardinality(TextParts)
              /\ \A k \in DOMAIN sections : sections[k].text = strip(DocParts[SectionPart(k)])

\* C14 witness: sections returned for a document in which an sfx directive
\* separates two text spans and a span was trimmed.
C14_Witness ==
    /\ AfterParse /\ AllValid
    /\ \E k \in DOMAIN sections, j \in BodyParts :
          /\ k > 1 /\ SectionPart(k - 1) < j /\ j < SectionPart(k)
          /\ lower(RawCommand(DocParts[j])) = <<"s","f","x">>
    /\ \E k \in DOMAIN sections : sections[k].text # DocParts[SectionPart(k)]
    /\ \E k \in DOMAIN sections : sections[k].text # DocParts[SectionPart(k)]

\* The calls of validate_markup and validate_audiobook_markup in log.
ValidateCalls == {n \in DOMAIN log : log[n].op \in {"validate_markup", "validate_audiobook_markup"}}

\* The positions at which sub occurs in text.
OccursAt(text, sub) == {i \in 1..(Len(text) - Len(sub) + 1) : SubSeq(text, i, i + Len(sub) - 1) = sub}

\* The number of occurrences of sub in text: the most occurrences no two of
\* which overlap.
Occurrences(text, sub) ==
    LET apart == {S \in SUBSET OccursAt(text, sub) :
                     \A a, b \in S : a < b => b - a >= Len(sub)}
    IN  CHOOSE n \in 0..Len(text) :
            /\ \E S \in apart : Cardinality(S) = n
            /\ \A S \in apart : Cardinality(S) <= n

\* The position, counted from 0, at which the directive parts[j] starts in the
\* text that was split into parts.
RECURSIVE StartOf(_, _)
StartOf(parts, j) ==
    IF j = 1 THEN 0
    ELSE StartOf(parts, j - 1) + Len(parts[j - 1]) + (IF j % 2 = 0 THEN 0 ELSE 6)

\* C15: validate never raises and returns one issue for each matched directive
\* body the interpreter rejects (with its position and the interpreter's error),
\* plus one issue exactly when the numbers of {{{ and of }}} differ; so it
\* returns the empty list exactly when no body is rejected and the numbers agree.
C15_ValidateIssues ==
    \A n \in ValidateCalls :
        LET issues == log[n].issues
            parts == MARKUP_PATTERN_split(log[n].text)
            rejected == {j \in DOMAIN parts : j % 2 = 0 /\ Rejected(parts[j])}
            unmatched == {i \in DOMAIN issues : issues[i].issue = "Unmatched braces"}
            differ == Occurrences(log[n].text, <<"{","{","{">>) # Occurrences(log[n].text, <<"}","}","}">>)
        IN  /\ log[n].raised = NoError
            /\ Len(issues) = Cardinality(rejected) + Cardinality(unmatched)
            /\ Cardinality(unmatched) = IF differ THEN 1 ELSE 0
            /\ \A j \in rejected :
                  \E i \in DOMAIN issues :
                      /\ issues[i].issue = "Invalid markup"
                      /\ issues[i].position = StartOf(parts, j)
                      /\ issues[i].error = _parse_markup(ParserInit, parts[j]).raised
            /\ issues = <<>> <=> rejected = {} /\ ~differ

\* C15 witness: validate returned an issue for the braces and an issue for each
\* of two rejected directives.
C15_Witness ==
    \E n \in ValidateCalls :
        /\ Len(log[n].issues) = 3
        /\ log[n].issues[1].issue = "Unmatched braces"
        /\ log[n].issues[2].issue = "Invalid markup"
        /\ log[n].issues[3].issue = "Invalid markup"

\* C16: validate_markup executes no directive: it leaves the parser's current
\* voice and current background as they were, every issue about a directive is
\* what a new parser says of that body alone, and a parse that follows it returns
\* what it would have returned without it.
C16_ValidateLeavesParser ==
    \A n \in DOMAIN log :
        log[n].op = "validate_markup" =>
            /\ log[n].after = log[n].before
            /\ \A i \in DOMAIN log[n].issues :
                  log[n].issues[i].issue = "Invalid markup" =>
                      \E j \in DOMAIN MARKUP_PATTERN_split(log[n].text) :
                          /\ j % 2 = 0
                          /\ StartOf(MARKUP_PATTERN_split(log[n].text), j) = log[n].issues[i].position
                          /\ _parse_markup(ParserInit, MARKUP_PATTERN_split(log[n].text)[j]).raised
                                 = log[n].issues[i].error
            /\ n < Len(log) /\ log[n + 1].op = "parse" =>
                  /\ log[n + 1].sections = parse(log[n].before, log[n + 1].text).sections
                  /\ log[n + 1].raised = parse(log[n].before, log[n + 1].text).raised
                  /\ log[n + 1].after = parse(log[n].before, log[n + 1].text).self

\* C16 witness: validate_markup was called, on a parser with a current voice and a
\* current background, with a text whose directives set another voice and
\* another background, and a parse that returned sections followed it.
C16_Witness ==
    \E n \in DOMAIN log :
        /\ log[n].op = "validate_markup"
        /\ log[n].before.current_voice # None
        /\ log[n].before.current_background # None
        /\ parse(ParserInit, log[n].text).self.current_voice \notin {None, log[n].before.current_voice}
        /\ parse(ParserInit, log[n].text).self.current_background
               \notin {None, log[n].before.current_background}
        /\ n < Len(log) /\ log[n + 1].op = "parse" /\ log[n + 1].sections # <<>>

DirectiveEnd(text, i) ==
    LET ends == {j \in (i + 4)..(Len(text) - 2) :
                    /\ SubSeq(text, i, i + 2) = <<"{","{","{">>
                    /\ SubSeq(text, j, j + 2) = <<"}","}","}">>
                    /\ \A k \in (i + 3)..(j - 1) : text[k] # "}"}
    IN  IF ends = {} THEN 0 ELSE (CHOOSE j \in ends : TRUE) + 2

\* The characters of text from position i on that are in no directive.
RECURSIVE Outside(_, _)
Outside(text, i) ==
    IF i > Len(text) THEN <<>>
    ELSE IF DirectiveEnd(text, i) > 0 THEN Outside(text, DirectiveEnd(text, i) + 1)
    ELSE <<text[i]>> \o Outside(text, i + 1)

\* s without its whitespace.
Squeeze(s) == SelectSeq(s, LAMBDA c : c \notin Whitespace)

\* The texts of the first n sections, one after the other.
RECURSIVE SectionTexts(_)
SectionTexts(n) == IF n = 0 THEN <<>> ELSE SectionTexts(n - 1) \o sections[n].text

\* C18: text that does not match the directive pattern is not interpreted: a
\* document without any directive raises no error and, unless blank, gives one
\* section with the whole trimmed document, no voice and no background; and in
\* any document whose directives are valid, the texts of the sections are, up to
\* whitespace, the characters outside the directives, braces included.
C18_UnmatchedKeptAsText ==
    /\ ParseDone /\ (\A i \in DOMAIN markup_text : DirectiveEnd(markup_text, i) = 0) =>
          /\ task.error.exc # "AudiobookMarkupError"
          /\ strip(markup_text) # <<>> =>
                /\ AfterParse
                /\ sections = <<MarkupSection(strip(markup_text), None, <<>>, None)>>
    /\ ParseDone /\ AllValid =>
          /\ task.error.exc # "AudiobookMarkupError"
          /\ Squeeze(SectionTexts(Len(sections))) = Squeeze(Outside(markup_text, 1))

\* C18 witness: a section of a document with a voice directive holds an
\* empty-body {{{}}} and an unclosed {{{ in its text.
C18_Witness ==
    /\ AfterParse
    /\ \E k \in DOMAIN sections :
          /\ sections[k].voice # None
          /\ \E i \in OccursAt(sections[k].text, <<"{","{","{","}","}","}">>) :
                \E i2 \in OccursAt(sections[k].text, <<"{","{","{">>) : i2 > i

\* The end of event i of audio_events.
EndOf(i) == audio_events[i].start + audio_events[i].len

\* The mix of audio_events is d ms long, as long as the latest end of an event,
\* and every event lies in it at its own start time.
MixedAtStarts(d) ==
    /\ \E i \in DOMAIN audio_events : EndOf(i) = d
    /\ \A i \in DOMAIN audio_events :
          /\ EndOf(i) <= d
          /\ overlay_position(audio_events[i]) = audio_events[i].start
          /\ 0 <= overlay_position(audio_events[i])

ZeroVolume(config) ==
    <<"v","o","l","u","m","e">> \in DOMAIN config /\ config[<<"v","o","l","u","m","e">>].t = "num" /\ config[<<"v","o","l","u","m","e">>].m = 0

\* Some section of the job has a background or a sound effect with volume 0.
ZeroVolumeGiven ==
    \E k \in DOMAIN sections :
       \/ sections[k].background_audio # None /\ ZeroVolume(sections[k].background_audio[1])
       \/ \E n \in DOMAIN sections[k].sound_effects : ZeroVolume(sections[k].sound_effects[n])

\* C21: a document with a sound effect or background of volume 0 is rejected as
\* invalid markup: validation reports an issue for it, and its job neither
\* completes nor fails with anything but a markup error.
C21_ZeroVolumeRejected ==
    ZeroVolumeGiven =>
        /\ validate_audiobook_markup(markup_text).issues # <<>>
        /\ task.status # "completed"
        /\ task.status = "failed" => task.error.exc = "AudiobookMarkupError"

\* The length of the voice buffers of the sections before section k, from the
\* first n events.
RECURSIVE VoiceBefore(_, _)
VoiceBefore(k, n) ==
    IF n = 0 THEN 0
    ELSE VoiceBefore(k, n - 1)
             + (IF audio_events[n].kind = "voice" /\ audio_events[n].section < k
                THEN audio_events[n].len ELSE 0)

\* The cursor at which section k starts.
StartCursor(k) == VoiceBefore(k, Len(audio_events))

\* The synthesis calls made for section k.
SynthCallsOf(k) == {c \in SynthCalls : calls[c].section = k}

\* The section loop of process_audiobook is over and the job has not failed.
LoopOver == pc \in {"final_background", "mix"} \/ (pc = "done" /\ task.status = "completed")

\* What C22 says of the cursor and of the events: the cursor is the length of
\* the voice buffers so far; synthesis calls are made in section order; a voice
\* event starts at the cursor of its section and voice events start in
\* non-decreasing order; a sound effect starts at the cursor of its section plus
\* its start_at.
CursorAndEvents ==
    /\ task.status # "failed" => current_time = StartCursor(Len(sections) + 1)
    /\ \A c, d \in SynthCalls : c < d => calls[c].section < calls[d].section
    /\ \A i \in DOMAIN audio_events :
          LET e == audio_events[i]
          IN  /\ e.kind = "voice" =>
                    /\ e.start = StartCursor(e.section)
                    /\ \A j \in 1..(i - 1) :
                          audio_events[j].kind = "voice" => audio_events[j].start <= e.start
              /\ e.kind = "sfx" =>
                    \E n \in DOMAIN sections[e.section].sound_effects :
                       /\ sections[e.section].sound_effects[n][<<"i","d">>].s = e.ref
                       /\ e.start = StartCursor(e.section)
                                      + Times1000(StartAt(sections[e.section].sound_effects[n]))

OneOpenSpan ==
    /\ Len(active_bg) <= 1
    /\ active_bg # None /\ pc \notin {"mix", "done"} =>
          /\ active_bg[1].start_time <= current_time
          /\ active_bg[1].start_time = StartCursor(active_bg[1].section)
          /\ \A i \in BackgroundEvents : EndOf(i) <= active_bg[1].start_time

\* C23: background events never overlap.  At most one span is open; the n-th
\* background event is the span closed by the n-th lookup that found audio: it
\* starts at the cursor at which the span was opened and ends no later than the
\* cursor at which it was closed, at that cursor when the background loops; the
\* events follow one another without overlap and lie between 0 and the cursor;
\* and in a completed job a span open after the last section has been closed
\* by a lookup made at the final cursor.
C23_BackgroundNoOverlap ==
    /\ OneOpenSpan
    /\ Len(BackgroundEventSeq) <= Len(BackgroundCalls)
    /\ \A n \in DOMAIN BackgroundEventSeq :
          LET e == audio_events[BackgroundEventSeq[n]]
              close == Cursor(calls[BackgroundCalls[n]].section)
          IN  /\ 0 <= e.start /\ e.start = StartCursor(e.section)
              /\ e.start <= close /\ close <= current_time
              /\ e.start + e.len <= close
              /\ LoopOf(sections[e.section].background_audio[1]) => e.start + e.len = close
              /\ \A m \in 1..(n - 1) : EndOf(BackgroundEventSeq[m]) <= e.start
    /\ pc = "done" /\ task.status = "completed" /\ active_bg # None =>
          \E c \in DOMAIN calls :
             /\ calls[c].op = "load_background_audio"
             /\ calls[c].section = Len(sections) + 1
             /\ calls[c].ref = active_bg[1].bg_config[<<"n","a","m","e">>].s
             /\ Usable(calls[c]) =>
                   \E i \in BackgroundEvents :
                      /\ audio_events[i].start = active_bg[1].start_time
                      /\ audio_events[i].section = active_bg[1].section
                      /\ EndOf(i) <= current_time

\* C23 witness: a completed job with two background events, the second of which
\* starts after 0 where the first ends and was closed at the final cursor
\* without filling its span.
C23_Witness ==
    /\ pc = "done" /\ task.status = "completed"
    /\ Len(BackgroundEventSeq) = 2
    /\ audio_events[BackgroundEventSeq[2]].start > 0
    /\ EndOf(BackgroundEventSeq[1]) = audio_events[BackgroundEventSeq[2]].start
    /\ EndOf(BackgroundEventSeq[2]) < current_time

\* C24: every option of a section's background is stored under a trimmed key,
\* and an option value that is kept as a string is stored trimmed.
C24_OptionStringsTrimmed ==
    AfterParse =>
        \A k \in DOMAIN sections :
            sections[k].background_audio # None =>
                LET bg == sections[k].background_audio[1]
                IN  \A key \in DOMAIN bg :
                       /\ key = strip(key)
                       /\ bg[key].t = "str" => bg[key].s = strip(bg[key].s)

\* A background configuration written with loop:false.
LoopDisabled(bg_config) ==
    <<"l","o","o","p">> \in DOMAIN bg_config /\ bg_config[<<"l","o","o","p">>].t = "str"
        /\ lower(strip(bg_config[<<"l","o","o","p">>].s)) = <<"f","a","l","s","e">>

\* C26: the buffer of a background written with loop:false is the source cut to
\* the span, never repeated: the n-th background event, built from the n-th
\* background found, is as long as the shorter of the source and the span.
C26_LoopFalseNotRepeated ==
    \A n \in DOMAIN BackgroundEventSeq :
        n <= Len(BackgroundCalls) =>
            LET e == audio_events[BackgroundEventSeq[n]]
                c == calls[BackgroundCalls[n]]
            IN  LoopDisabled(sections[e.section].background_audio[1]) =>
                    e.len = Min(c.result[2], Cursor(c.section) - e.start)

\* The parse calls of the client, by position in log.
ParseCalls == {n \in DOMAIN log : log[n].op = "parse"}

\* C27: every parse call on the client's parser raises and returns what a
\* fresh parser raises and returns for the same text.
C27_ParseCallsIndependent ==
    \A n \in ParseCalls :
        LET fresh == parse(ParserInit, log[n].text)
        IN  /\ log[n].raised = fresh.raised
            /\ log[n].sections = fresh.sections

\* The issues validation returned for the request, when it was validated.
Validated == log # <<>> /\ log[1].op = "validate_audiobook_markup"

\* C28: validation is sound for parsing.  A text for which validation returns no
\* issue is parsed without an exception; a request is accepted only when its
\* text is not blank and validation returned no issue, and its job never fails
\* with a markup error; a rejected request has no task record, and nothing of
\* process_audiobook has run for it.
C28_ValidationSound ==
    /\ validate_audiobook_markup(markup_text).issues = <<>> =>
          parse_audiobook_markup(markup_text).raised = NoError
    /\ task # NoTask =>
          /\ strip(markup_text) # <<>>
          /\ Validated /\ log[1].issues = <<>>
          /\ task.status = "failed" => task.error.exc # "AudiobookMarkupError"
    /\ pc = "rejected" =>
          /\ strip(markup_text) = <<>> \/ (Validated /\ log[1].issues # <<>>)
          /\ task = NoTask
          /\ sections = <<>> /\ calls = <<>> /\ audio_events = <<>>
    /\ pc \notin {"request", "rejected"} => task # NoTask

\* C28 witness: an accepted request with directives whose job has completed.
C28_Witness ==
    /\ pc = "done" /\ task.status = "completed"
    /\ Validated /\ log[1].issues = <<>>
    /\ Cardinality(BodyParts) >= 2
    /\ Len(sections) >= 2

\* C25: every call of create_looped_segment returns: whatever the segment (an
\* empty one included) and the duration, each pass of its loop adds audio and
\* the loop ends.
C25_LoopEnds == <>(loop_call.pc = "returned")

\* No call on the name is waiting at its await.
NoCallOn(plugin_name) == \A c \in plugin_calls : c.plugin_name # plugin_name

\* The numbers in plugin_history of the calls on the name.
ReturnedOn(plugin_name) == {i \in DOMAIN plugin_history : plugin_history[i].plugin_name = plugin_name}

\* The last call on the name to return.
LastReturned(plugin_name) ==
    plugin_history[CHOOSE i \in ReturnedOn(plugin_name) : \A j \in ReturnedOn(plugin_name) : j <= i]

\* The last call on the name to return was an activate_plugin that returned
\* True (its initialize returned normally).
LastActivated(plugin_name) ==
    /\ ReturnedOn(plugin_name) # {}
    /\ LastReturned(plugin_name).op = "activate_plugin"
    /\ LastReturned(plugin_name).returned

HadConnections(e) == e.conversation_id \in DOMAIN e.before.frontend_connections

\* The connections of the conversation that the call's removal leaves.
LeftBy(e) == e.before.frontend_connections[e.conversation_id] \ {e.websocket}

\* The call left the conversation in place, with its connections other than
\* the removed one, and the other conversations as they were.
LeftInPlace(e) ==
    /\ e.after.active_conversations = e.before.active_conversations
    /\ e.after.frontend_connections =
           Put(e.before.frontend_connections, e.conversation_id, LeftBy(e))

\* The conversation is in neither dictionary.
Gone(dicts, conversation_id) ==
    /\ conversation_id \notin dicts.active_conversations
    /\ conversation_id \notin DOMAIN dicts.frontend_connections

\* The session made for the conversation, if one was, is not active.
SessionStopped(conversation_id) ==
    conversation_id \in DOMAIN sessions => ~sessions[conversation_id].is_active

\* The dictionaries after a call of remove_frontend_connection and of
\* end_conversation are as the teardown rules say.
TeardownDicts(e) ==
    /\ (e.op = "remove_frontend_connection" /\ HadConnections(e) /\ LeftBy(e) # {})
           => LeftInPlace(e)
    /\ (e.op = "remove_frontend_connection" /\ HadConnections(e) /\ LeftBy(e) = {})
           => Gone(e.after, e.conversation_id)
                  /\ Gone(Dicts(active_conversations, frontend_connections), e.conversation_id)
    /\ (e.op = "end_conversation" /\ Gone(e.before, e.conversation_id))
           => e.after = e.before

\* C30: a removal of a frontend connection that is not the last leaves the
\* conversation and its other connections in place; a removal of the last one
\* ends the conversation: from then on its id is in neither dictionary and
\* its session is stopped; ending an unknown conversation changes nothing.
C30_Teardown ==
    \A i \in DOMAIN conv_log :
        /\ TeardownDicts(conv_log[i])
        /\ (conv_log[i].op = "remove_frontend_connection" /\ HadConnections(conv_log[i])
               /\ LeftBy(conv_log[i]) = {})
               => SessionStopped(conv_log[i].conversation_id)
====
